---- MODULE Spec2Model ----
(***************************************************************************)
(* Model of the phase-2 transfer pipeline (mango/db_handler.py and         *)
(* __main__.py): the remote store, the MongoDirect object with its caches  *)
(* and per-key locks, the merge_entity / merge_relation coroutines and the *)
(* driver that fans them out in batches.                                   *)
(*                                                                         *)
(* Atomicity.  The program is single-threaded asyncio: a coroutine runs    *)
(* without interruption from one `await` on the store to the next.  Every  *)
(* action below is one such stretch: it resumes a coroutine after the      *)
(* previous awaited call, runs the local code, and ends with the effect on *)
(* the store of the next awaited call (whose result the coroutine sees     *)
(* when it is resumed by its next action).  A gather that fails and the    *)
(* end of the process are stretches of the caller and of asyncio.run; the  *)
(* calls whose answers arrive run in between.                              *)
(***************************************************************************)
EXTENDS Integers, Sequences, FiniteSets, TLC

VARIABLES
    \* ---- remote store -------------------------------------------------
    db_entities,        \* all entity collections: sequence of documents, _id = index
    db_relationtypes,   \* relationtypes collection
    db_relations,       \* relations collection
    db_audits,          \* number of documents in the audits collection
    audit_budget,       \* number of audits.insert_one calls the store may still fail
    \* ---- MongoDirect instance ------------------------------------------
    username,           \* self.username
    user_id,            \* self.user_id
    active_entities,    \* self.active_entities   [has, d]
    relation_types,     \* self.relation_types    [has, d]
    relations,          \* self.relations         [has, d]
    relation_type_locks,\* self.relation_type_locks: arrival-ordered <<key, task>>
    \* ---- coroutines ----------------------------------------------------
    etasks,             \* merge_entity calls of the current gather
    rtasks,             \* merge_relation calls of the current gather
    ltasks,             \* the cache loaders gathered at start-up: loader -> position
    late,               \* passes of the event loop since the caller failed: the
                        \* calls that ran in each of them
    \* ---- driver --------------------------------------------------------
    mpc,                \* position of the driver
    populated,          \* history: the caches were fetched at start-up
    calls,              \* sequential caller: number of calls made so far
    returned,           \* history: arguments and result of the calls that returned
    \* ---- main() --------------------------------------------------------
    dataset,            \* the collected input of the run
    entities_file,      \* output/entities.json
    relations_file,     \* output/relations.json
    logged_entities,    \* main: logged_entities
    logs,               \* main: logs
    cursor,             \* main: i of the batch loop
    todo,               \* main: entities_to_process / unique_relations
    run,                \* history: index of the run, what it has done
    hist,               \* history: what earlier runs left behind
    \* ---- store faults --------------------------------------------------
    faults,             \* number of store calls of merge operations that may still raise
    \* ---- functions applied on their own ---------------------------------
    fn_arg,             \* the function and its argument
    fn_res              \* its result, once it has returned

store_vars == <<db_entities, db_relationtypes, db_relations, db_audits, audit_budget>>
mg_vars    == <<username, user_id, active_entities, relation_types, relations,
                relation_type_locks>>
task_vars  == <<etasks, rtasks>>
main_vars  == <<dataset, entities_file, relations_file, logged_entities, logs,
                cursor, todo, run, hist>>
drv_vars  == <<mpc, populated, calls, returned>>
fn_vars   == <<fn_arg, fn_res>>
loop_vars == <<ltasks, late>>
vars == <<store_vars, mg_vars, task_vars, loop_vars, drv_vars, main_vars, faults, fn_vars, loop_vars>>

-----------------------------------------------------------------------------
(* Bounds *)
MaxTasks  == 3          \* merge_relation calls gathered by the fan-out driver
MaxCalls == 3           \* merge_entity calls the sequential caller awaits
MaxLazyTasks == 2       \* the same, when the caches were not fetched beforehand
MaxAuditFailures == 1   \* audit inserts the store fails in one behaviour
MaxStoreFaults == 1      \* awaited store calls that raise, over the runs of main()

-----------------------------------------------------------------------------
(* The event loop at the end of a run that fails (asyncio.run, __main__.py *)
(* 339).  The caller ends in one pass of the loop, the loop stops at the   *)
(* end of the next one, and asyncio.run then cancels what is still         *)
(* suspended.  A call whose answer has arrived runs one stretch in a pass: *)
(* after the caller in the pass in which the caller ended, and in the      *)
(* pass after it.                                                          *)

MaxLatePasses == 2
Loaders == {"active_entities", "relation_types", "relations"}
LoadersPending == [l \in Loaders |-> "pending"]

\* call c runs a stretch; once the caller has failed, it runs in the current
\* pass when it has not run in it, and in the next pass when there is one
Stretch(c) ==
    IF mpc # "failed" THEN UNCHANGED late
    ELSE IF late # <<>> /\ c \notin late[Len(late)]
    THEN late' = [late EXCEPT ![Len(late)] = @ \cup {c}]
    ELSE /\ Len(late) < MaxLatePasses
         /\ late' = Append(late, {c})

-----------------------------------------------------------------------------
(* Identifiers.  An ObjectId is modelled as <<collection tag, number>>.    *)
None == <<"none", 0>>
Id(tag, n) == <<tag, n>>

(* Python dicts are sets of <<key, value>> pairs with one pair per key.    *)
Has(d, k) == \E p \in d : p[1] = k
Get(d, k) == IF Has(d, k) THEN (CHOOSE p \in d : p[1] = k)[2] ELSE None
GetOr(d, k, default) == IF Has(d, k) THEN (CHOOSE p \in d : p[1] = k)[2] ELSE default
Put(d, k, v) == {p \in d : p[1] # k} \cup {<<k, v>>}
Unset == [has |-> FALSE, d |-> {}]
Loaded(d) == [has |-> TRUE, d |-> d]

Range(s) == {s[i] : i \in 1..Len(s)}

\* a function applied on its own: no call, and a call that has not returned
NoCall == [fn |-> "none"]
Pending == [state |-> "pending"]
Done(value) == [state |-> "returned", v |-> value]
\* a call that an exception has left
Raised(exc) == [state |-> "raised", exc |-> exc]
\* what a call ends with, from the value or the exception of the function
Ended(r) == IF r.t = "raise" THEN Raised(r.exc) ELSE Done(r)

\* A cache file.  kind: "missing" (no such file), "garbage" (text that is
\* not a JSON document: empty, truncated, damaged), "undecodable" (bytes
\* that are not text in the encoding of open()), "value" (a JSON document
\* that is not an object: a list, a number, a string, null), "object" (a JSON
\* object, d its content)
NoFile == [kind |-> "missing", d |-> {}]
Truncated == [kind |-> "garbage", d |-> {}]
Undecodable == [kind |-> "undecodable", d |-> {}]
NotAnObject == [kind |-> "value", d |-> {}]
\* json.dump(cache, outfile): the nested dicts of strings are written as they are
json_dump(cache) == [kind |-> "object", d |-> cache]

\* what a call of load_json_cache ends with: a cache, or an exception
Returns(cache) == [raised |-> FALSE, cache |-> cache]
Raises == [raised |-> TRUE, cache |-> {}]
\* load_json_cache (19-40).  exists() is false: line 40.  json.load raises
\* JSONDecodeError: caught at 38, line 40.  infile.read() raises
\* UnicodeDecodeError, or loaded_data has no items() (28): nothing catches it.
load_json_cache(file) ==
    CASE file.kind = "missing"     -> Returns({})
      [] file.kind = "garbage"     -> Returns({})
      [] file.kind = "undecodable" -> Raises
      [] file.kind = "value"       -> Raises
      [] file.kind = "object"      -> Returns(file.d)

-----------------------------------------------------------------------------
(* Contents of the collections the program only reads.                     *)

\* users collection: username -> _id
Users == {<<"alice", Id("usr", 1)>>, <<"bob", Id("usr", 2)>>}

\* types collection
TypeDocs ==
    { [id |-> Id("typ", 1), name |-> "persons", displayName |-> "Person",  active |-> TRUE],
      [id |-> Id("typ", 2), name |-> "concept", displayName |-> "Concept", active |-> TRUE],
      [id |-> Id("typ", 3), name |-> "motif",   displayName |-> "Motif",   active |-> TRUE],
      [id |-> Id("typ", 4), name |-> "ghost",   displayName |-> "Ghost",   active |-> FALSE] }

\* str.lower() on the display names that occur
Lower(s) ==
    CASE s = "Person"  -> "person"
      [] s = "Concept" -> "concept"
      [] s = "Motif"   -> "motif"
      [] s = "Ghost"   -> "ghost"
      [] OTHER         -> s

\* db.types.find_one({"name": n})
FindType(n) ==
    IF \E d \in TypeDocs : d.name = n
    THEN (CHOOSE d \in TypeDocs : d.name = n).id
    ELSE None

\* db.users.find_one({"username": n})
FindUser(n) == Get(Users, n)

-----------------------------------------------------------------------------
(* str(ObjectId) and ObjectId(str): the hex string of an id, and back.     *)
Str(id) == <<"str", id[1], id[2]>>
ObjectId(s) == <<s[2], s[3]>>

\* self.collection_map: canonical type name -> collection
collection_map ==
    { <<"persons", "persons">>, <<"places", "places">>,
      <<"institutions", "institutions">>, <<"event", "events">>,
      <<"appellations", "appellations">>, <<"attachments", "attachments">>,
      <<"groups", "groups">>, <<"sources", "sources">>,
      <<"visual_object", "visual_objects">>, <<"work", "works">>,
      <<"expression", "expressions">>, <<"manifestation", "manifestations">>,
      <<"item", "items">>, <<"page", "pages">>,
      <<"physical_object", "physical_objects">>,
      <<"abstract_character", "abstract_characters">>,
      <<"hypothesis", "hypotheses">>, <<"relationship", "relationships">> }
default_collection == "entities"
CollectionOf(entity_type) == GetOr(collection_map, entity_type, default_collection)

\* self.predefined: lower-cased display name -> name field
predefined ==
    { <<"group", "name">>, <<"appellation", "name">>, <<"source", "title">>,
      <<"attachment", "label">>, <<"event", "title">> }
FieldOf(display_name_lower) == GetOr(predefined, display_name_lower, "description")

-----------------------------------------------------------------------------
(* The cache loaders.  A dict comprehension over a cursor keeps, for a key *)
(* that occurs twice, the value of the last document.                      *)
LastWith(seq, Key(_), k) ==
    CHOOSE i \in 1..Len(seq) :
        /\ Key(seq[i]) = k
        /\ \A j \in (i+1)..Len(seq) : Key(seq[j]) # k

\* get_active_entities: {displayName.lower(): name} of the active types
get_active_entities ==
    { <<Lower(d.displayName), d.name>> : d \in {x \in TypeDocs : x.active} }

RelTypeKey(r) == <<r.name, Str(r.type), Str(r.relationType)>>
\* get_relationTypes: {(name, str(type), str(relationType)): _id}
get_relationTypes(coll) ==
    LET ok == {i \in 1..Len(coll) : coll[i].type # None /\ coll[i].relationType # None}
        keys == {RelTypeKey(coll[i]) : i \in ok}
    IN  { <<k, Id("rt", CHOOSE i \in ok :
                    /\ RelTypeKey(coll[i]) = k
                    /\ \A j \in ok : j > i => RelTypeKey(coll[j]) # k)>> : k \in keys }

RelKey(e1, e2, rt) == <<Str(e1), Str(e2), Str(rt)>>
RelDocKey(r) == RelKey(r.entity1, r.entity2, r.relationType)
\* get_relations: {str(entity1) + str(entity2) + str(relationType): _id}
get_relations(coll) ==
    LET keys == {RelDocKey(coll[i]) : i \in 1..Len(coll)}
    IN  { <<k, Id("rel", LastWith(coll, RelDocKey, k))>> : k \in keys }

-----------------------------------------------------------------------------
(* merge_relation (db_handler.py 176-224).                                 *)
(* A call is a record: its arguments, its position pc, its locals, and the *)
(* history fields new_rt, new_rel (what the call has inserted), aud_failed *)
(* (an audit insert of the call failed) and origin (the run and the input  *)
(* relation the call was made for).  A document carries the origin of the  *)
(* call that inserted it in the history field `by`.                        *)
(* The operators below work on a record m of everything a stretch of the   *)
(* coroutine can touch:                                                    *)
(*   m.tk the call, m.rt self.relation_types, m.rel self.relations,        *)
(*   m.locks self.relation_type_locks, m.dbrt / m.dbrel the collections.   *)

NewRTask(relation_name, src_type, trg_type, entity1_id, entity2_id) ==
    [ pc |-> "start",
      relation_name |-> relation_name, src_type |-> src_type, trg_type |-> trg_type,
      entity1_id |-> entity1_id, entity2_id |-> entity2_id,
      rel_type_key |-> <<>>, relation_type_id |-> None, ret |-> None,
      snap |-> {}, aud_failed |-> FALSE, new_rt |-> FALSE, new_rel |-> FALSE,
      origin |-> <<0, <<>> >> ]

\* (mutation of Holder: a lock that never excludes anybody)
Holder_NoExclusion(locks, key) == 0

\* the lock of `key` is held by the first call that arrived for it
Holder(locks, key) ==
    LET idx == {i \in 1..Len(locks) : locks[i][1] = key}
    IN  IF idx = {} THEN 0
        ELSE locks[CHOOSE i \in idx : \A j \in idx : i <= j][2]
Release(locks, t) == SelectSeq(locks, LAMBDA e : e[2] # t)

\* lines 210-219: look the relation up in the cache, insert it on a miss
MR_Relation(m) ==
    LET tk == m.tk
        rel_key == RelKey(tk.entity1_id, tk.entity2_id, tk.relation_type_id)
    IN  IF Has(m.rel.d, rel_key)
        THEN [m EXCEPT !.tk.ret = Get(m.rel.d, rel_key), !.tk.pc = "done"]
        ELSE IF m.rej
        THEN [m EXCEPT !.tk.pc = "rel_ins_rej"]
        ELSE [m EXCEPT
                !.dbrel = Append(m.dbrel,
                            [entity1 |-> tk.entity1_id,
                             relationType |-> tk.relation_type_id,
                             entity2 |-> tk.entity2_id,
                             by |-> tk.origin]),
                !.tk.new_rel = TRUE,
                !.tk.ret = Id("rel", Len(m.dbrel) + 1),
                !.tk.pc = "rel_ins"]

\* lines 207-208: the relation cache is fetched by the first call that misses it
MR_AfterLock(m) ==
    IF ~m.rel.has
    THEN [m EXCEPT !.tk.snap = get_relations(m.dbrel), !.tk.pc = "load_rel"]
    ELSE MR_Relation(m)

\* lines 192-201, with the lock held: cache lookup, insert on a miss
MR_Critical(m, t) ==
    LET tk == m.tk
        relation_type_id == Get(m.rt.d, tk.rel_type_key)
    IN  IF relation_type_id = None
        THEN IF m.rej
        THEN [m EXCEPT !.tk.pc = "rt_ins_rej"]
        ELSE [m EXCEPT
                !.dbrt = Append(m.dbrt,
                            [name |-> tk.relation_name,
                             type |-> FindType(tk.src_type),
                             relationType |-> FindType(tk.trg_type),
                             by |-> tk.origin]),
                !.tk.new_rt = TRUE,
                !.tk.relation_type_id = Id("rt", Len(m.dbrt) + 1),
                !.tk.pc = "rt_ins"]
        ELSE MR_AfterLock([m EXCEPT !.tk.relation_type_id = relation_type_id,
                                    !.locks = Release(m.locks, t)])

\* line 191: async with self.relation_type_locks[rel_type_key]
MR_Acquire(m, t) ==
    LET key == m.tk.rel_type_key
        queued == [m EXCEPT !.locks = Append(m.locks, <<key, t>>)]
    IN  IF Holder(m.locks, key) = 0
        THEN MR_Critical(queued, t)
        ELSE [queued EXCEPT !.tk.pc = "lock"]

\* (mutation of MR_FindTypes: no check of the two type documents)
MR_FindTypes_Unchecked(m, t) ==
    MR_Acquire([m EXCEPT !.tk.rel_type_key =
        <<m.tk.relation_name, Str(FindType(m.tk.src_type)), Str(FindType(m.tk.trg_type))>>], t)

\* lines 180-188: the two type documents and the key
MR_FindTypes(m, t) ==
    LET src_type_id == FindType(m.tk.src_type)
        trg_type_id == FindType(m.tk.trg_type)
    IN  IF src_type_id = None \/ trg_type_id = None
        THEN [m EXCEPT !.tk.ret = None, !.tk.pc = "done"]
        ELSE MR_Acquire([m EXCEPT !.tk.rel_type_key =
                            <<m.tk.relation_name, Str(src_type_id), Str(trg_type_id)>>], t)

\* _log_audit (58-75): nothing without a user context; a failed insert is
\* caught and only printed.  ok: whether db.audits.insert_one succeeds.
LogAudit(aud, ok) == IF user_id # None /\ ok THEN aud + 1 ELSE aud
AuditFailed(ok) == user_id # None /\ ~ok
\* (mutation of AfterAudit: the exception of a failed insert is not caught)
AfterAudit_Propagating(next, failed) == IF failed THEN "raised" ELSE next

\* lines 72-75, try/except: the coroutine goes on whether the insert failed
AfterAudit(next, failed) == next

\* the outcomes of db.audits.insert_one the store can still produce
AuditOutcomes == IF audit_budget > 0 THEN {TRUE, FALSE} ELSE {TRUE}

Mach(t) ==
    [ tk |-> rtasks[t], rt |-> relation_types, rel |-> relations,
      locks |-> relation_type_locks, dbrt |-> db_relationtypes,
      dbrel |-> db_relations, rej |-> FALSE ]
CommitR(m, t) ==
    /\ rtasks' = [rtasks EXCEPT ![t] = m.tk]
    /\ relation_types' = m.rt
    /\ relations' = m.rel
    /\ relation_type_locks' = m.locks
    /\ db_relationtypes' = m.dbrt
    /\ db_relations' = m.dbrel

RFrame == UNCHANGED <<db_entities, username, user_id, active_entities, etasks,
                      mpc, populated, calls, returned, main_vars, fn_vars, ltasks>>

\* An insert_one or update_one the store rejects: nothing is stored, and the
\* call, suspended at its await, gets an exception instead of a result.
\* m.rej says that the write the stretch issues is such a one.
Rejections == IF faults > 0 THEN BOOLEAN ELSE {FALSE}
RejectedWrites == {"rt_ins_rej", "rel_ins_rej"}
Doomed(t, rej) == [Mach(t) EXCEPT !.rej = rej]
StepR(stretch, t) ==
    \E m \in {stretch} :
        /\ m.rej <=> m.tk.pc \in RejectedWrites
        /\ CommitR(m, t)
        /\ faults' = IF m.rej THEN faults - 1 ELSE faults

\* lines 177-180: the relation-type cache is fetched by a call that finds
\* none; otherwise the call suspends at the find of the source type
MR_Start(t) ==
    /\ rtasks[t].pc = "start"
    /\ IF ~relation_types.has
       THEN CommitR([Mach(t) EXCEPT !.tk.snap = get_relationTypes(db_relationtypes),
                                    !.tk.pc = "load_rt"], t)
       ELSE CommitR([Mach(t) EXCEPT !.tk.pc = "src_find"], t)
    /\ UNCHANGED <<db_audits, audit_budget, faults>>
    /\ RFrame

\* line 98 (the assignment after the cursor is exhausted) then line 180
MR_TypesLoaded(t) ==
    /\ rtasks[t].pc = "load_rt"
    /\ CommitR([Mach(t) EXCEPT !.rt = Loaded(rtasks[t].snap),
                               !.tk.snap = {}, !.tk.pc = "src_find"], t)
    /\ UNCHANGED <<db_audits, audit_budget, faults>>
    /\ RFrame

\* lines 180-181: the source type document is there, the target one is asked for
MR_SrcFound(t) ==
    /\ rtasks[t].pc = "src_find"
    /\ CommitR([Mach(t) EXCEPT !.tk.pc = "trg_find"], t)
    /\ UNCHANGED <<db_audits, audit_budget, faults>>
    /\ RFrame

\* lines 181-201: the target type document is there; the check, the lock,
\* the cache lookup and, on a miss, the insert
MR_TrgFound(t) ==
    /\ rtasks[t].pc = "trg_find"
    /\ \E rej \in Rejections : StepR(MR_FindTypes(Doomed(t, rej), t), t)
    /\ UNCHANGED <<db_audits, audit_budget>>
    /\ RFrame

\* line 191, woken by the release of the previous holder
MR_Locked(t) ==
    /\ rtasks[t].pc = "lock"
    /\ Holder(relation_type_locks, rtasks[t].rel_type_key) = t
    /\ \E rej \in Rejections : StepR(MR_Critical(Doomed(t, rej), t), t)
    /\ UNCHANGED <<db_audits, audit_budget>>
    /\ RFrame

\* lines 202-203: the insert has returned, the audit record is written
MR_TypeInserted(t) ==
    /\ rtasks[t].pc = "rt_ins"
    /\ \E ok \in AuditOutcomes :
         /\ db_audits' = LogAudit(db_audits, ok)
         /\ audit_budget' = IF AuditFailed(ok) THEN audit_budget - 1 ELSE audit_budget
         /\ rtasks' = [rtasks EXCEPT ![t].pc = AfterAudit("rt_aud", AuditFailed(ok)),
                          ![t].aud_failed = @ \/ AuditFailed(ok)]
    /\ UNCHANGED <<relation_types, relations, relation_type_locks,
                   db_relationtypes, db_relations, faults>>
    /\ RFrame

\* line 205, the end of the `async with`, then 207-219
MR_TypeAudited(t) ==
    /\ rtasks[t].pc = "rt_aud"
    /\ \E rej \in Rejections :
         LET m == Doomed(t, rej)
         IN  StepR(MR_AfterLock(
               [m EXCEPT !.rt.d = Put(m.rt.d, m.tk.rel_type_key, m.tk.relation_type_id),
                         !.locks = Release(m.locks, t)]), t)
    /\ UNCHANGED <<db_audits, audit_budget>>
    /\ RFrame

\* line 105 (the assignment after the cursor is exhausted) then 210-219
MR_RelationsLoaded(t) ==
    /\ rtasks[t].pc = "load_rel"
    /\ \E rej \in Rejections :
         StepR(MR_Relation([Doomed(t, rej) EXCEPT !.rel = Loaded(rtasks[t].snap),
                                                  !.tk.snap = {}]), t)
    /\ UNCHANGED <<db_audits, audit_budget>>
    /\ RFrame

\* lines 220-221
MR_RelInserted(t) ==
    /\ rtasks[t].pc = "rel_ins"
    /\ \E ok \in AuditOutcomes :
         /\ db_audits' = LogAudit(db_audits, ok)
         /\ audit_budget' = IF AuditFailed(ok) THEN audit_budget - 1 ELSE audit_budget
         /\ rtasks' = [rtasks EXCEPT ![t].pc = AfterAudit("rel_aud", AuditFailed(ok)),
                          ![t].aud_failed = @ \/ AuditFailed(ok)]
    /\ UNCHANGED <<relation_types, relations, relation_type_locks,
                   db_relationtypes, db_relations, faults>>
    /\ RFrame

\* lines 223-224
MR_RelAudited(t) ==
    /\ rtasks[t].pc = "rel_aud"
    /\ LET tk == rtasks[t]
       IN  /\ relations' = [relations EXCEPT !.d =
                 Put(@, RelKey(tk.entity1_id, tk.entity2_id, tk.relation_type_id), tk.ret)]
           /\ rtasks' = [rtasks EXCEPT ![t].pc = "done"]
    /\ UNCHANGED <<relation_types, relation_type_locks, db_relationtypes,
                   db_relations, db_audits, audit_budget, faults>>
    /\ RFrame

merge_relation(t) ==
    /\ \/ MR_Start(t)
       \/ MR_TypesLoaded(t)
       \/ MR_SrcFound(t)
       \/ MR_TrgFound(t)
       \/ MR_Locked(t)
       \/ MR_TypeInserted(t)
       \/ MR_TypeAudited(t)
       \/ MR_RelationsLoaded(t)
       \/ MR_RelInserted(t)
       \/ MR_RelAudited(t)
    /\ Stretch(<<"merge_relation", t>>)

-----------------------------------------------------------------------------
(* merge_entity (db_handler.py 115-174).                                   *)
(* An entity document keeps its collection, the name field with its value, *)
(* the params it was created with, its type and its associatedUsers list.  *)

Absent == "absent"
NoType == ""            \* active_entities.get(...) of an unknown display name
ParamNames == {"date"}
NoParams == [p \in ParamNames |-> Absent]

NewETask(display_name, entity_name, params) ==
    [ pc |-> "start",
      display_name |-> display_name, entity_name |-> entity_name, params |-> params,
      entity_type |-> NoType, existing |-> None, seen_user |-> FALSE, ret |-> None,
      aud_failed |-> FALSE, new_doc |-> FALSE, updated |-> FALSE,
      origin |-> <<0, <<display_name, entity_name>> >> ]

\* a document matches query_params = params + {field_name: entity_name}
\* when it has every field of the query with the same value
Matches(doc, coll, field, name, params) ==
    /\ doc.coll = coll
    /\ doc.field = field
    /\ doc.name = name
    /\ \A p \in ParamNames : params[p] # Absent => doc.params[p] = params[p]

\* (mutation of FindOne: a lookup that never finds anything)
FindOne_Blind(docs, coll, field, name, params) == None

\* collection.find_one(query_params): the first matching document
FindOne(docs, coll, field, name, params) ==
    LET hits == {i \in 1..Len(docs) : Matches(docs[i], coll, field, name, params)}
    IN  IF hits = {} THEN None
        ELSE Id("ent", CHOOSE i \in hits : \A j \in hits : i <= j)

\* (mutation of AddToSet: $push, the id is appended whatever the array holds)
AddToSet_Push(list, u) == Append(list, u)

\* $addToSet on the associatedUsers array
AddToSet(list, u) == IF u \in Range(list) THEN list ELSE Append(list, u)

EMach(t) == [ tk |-> etasks[t], act |-> active_entities, dbent |-> db_entities ]
CommitE(m, t) ==
    /\ etasks' = [etasks EXCEPT ![t] = m.tk]
    /\ active_entities' = m.act
    /\ db_entities' = m.dbent

EFrame == UNCHANGED <<db_relationtypes, db_relations, username, user_id,
                      relation_types, relations, relation_type_locks, rtasks,
                      mpc, populated, calls, returned, main_vars, fn_vars, ltasks>>

\* lines 129-137: collection.find_one(query_params) is issued
ME_IssueFind(m) ==
    LET tk == m.tk
        display_name_lower == Lower(tk.display_name)
        existing_doc == FindOne(m.dbent, CollectionOf(tk.entity_type),
                                FieldOf(display_name_lower), tk.entity_name, tk.params)
    IN  [m EXCEPT !.tk.existing = existing_doc,
                  !.tk.seen_user =
                      /\ existing_doc # None
                      /\ user_id \in Range(m.dbent[existing_doc[2]].associatedUsers),
                  !.tk.pc = "found"]

\* (mutation of ME_Resolve: the users collection is not consulted)
ME_Resolve_NoAccountCheck(m) ==
    LET tk == m.tk
        display_name_lower == Lower(tk.display_name)
        entity_type == GetOr(m.act.d, display_name_lower, NoType)
    IN  IF entity_type = NoType
        THEN [m EXCEPT !.tk.ret = None, !.tk.pc = "done"]
        ELSE ME_IssueFind([m EXCEPT !.tk.entity_type = entity_type])

\* lines 119-137: type resolution; users.find_one is awaited for a person,
\* collection.find_one for everything else
ME_Resolve(m) ==
    LET tk == m.tk
        display_name_lower == Lower(tk.display_name)
        entity_type == GetOr(m.act.d, display_name_lower, NoType)
    IN  IF entity_type = NoType
        THEN [m EXCEPT !.tk.ret = None, !.tk.pc = "done"]
        ELSE IF entity_type = "persons"
        THEN [m EXCEPT !.tk.entity_type = entity_type, !.tk.pc = "user_find"]
        ELSE ME_IssueFind([m EXCEPT !.tk.entity_type = entity_type])

\* lines 116-137: the cache of active entities is fetched by a call that
\* finds none
ME_Start(t) ==
    /\ etasks[t].pc = "start"
    /\ IF ~active_entities.has
       THEN CommitE([EMach(t) EXCEPT !.tk.pc = "load_act"], t)
       ELSE CommitE(ME_Resolve(EMach(t)), t)
    /\ UNCHANGED <<db_audits, audit_budget, faults>>
    /\ EFrame

\* line 90 (the assignment after the cursor is exhausted) then 119-137
ME_ActiveLoaded(t) ==
    /\ etasks[t].pc = "load_act"
    /\ CommitE(ME_Resolve([EMach(t) EXCEPT !.act = Loaded(get_active_entities)]), t)
    /\ UNCHANGED <<db_audits, audit_budget, faults>>
    /\ EFrame

\* lines 127-137: users.find_one has returned; the id of an account is the
\* result, a person without one is looked up like any entity
ME_UserFound(t) ==
    /\ etasks[t].pc = "user_find"
    /\ LET user_doc == FindUser(etasks[t].entity_name)
       IN  IF user_doc # None
           THEN CommitE([EMach(t) EXCEPT !.tk.ret = user_doc, !.tk.pc = "done"], t)
           ELSE CommitE(ME_IssueFind(EMach(t)), t)
    /\ UNCHANGED <<db_audits, audit_budget, faults>>
    /\ EFrame

\* lines 139-167: the find has returned; update_one is issued for a document
\* of another operator, types.find_one for an entity not yet stored
ME_Found(t) ==
    /\ etasks[t].pc = "found"
    /\ LET tk == etasks[t]
       IN  IF tk.existing # None
           THEN IF ~tk.seen_user
                THEN \E rej \in Rejections :
                       /\ db_entities' = IF rej THEN db_entities
                                         ELSE [db_entities EXCEPT
                              ![tk.existing[2]].associatedUsers = AddToSet(@, user_id)]
                       /\ etasks' = [etasks EXCEPT
                                        ![t].updated = ~rej,
                                        ![t].pc = IF rej THEN "upd_rej" ELSE "upd"]
                       /\ faults' = IF rej THEN faults - 1 ELSE faults
                ELSE /\ etasks' = [etasks EXCEPT ![t].ret = tk.existing, ![t].pc = "done"]
                     /\ UNCHANGED <<db_entities, faults>>
           ELSE /\ etasks' = [etasks EXCEPT ![t].pc = "type_find"]
                /\ UNCHANGED <<db_entities, faults>>
    /\ UNCHANGED <<active_entities, db_audits, audit_budget>>
    /\ EFrame

\* lines 167-171: the type document is there, insert_one is issued
ME_TypeFound(t) ==
    /\ etasks[t].pc = "type_find"
    /\ LET tk == etasks[t]
           display_name_lower == Lower(tk.display_name)
       IN  \E rej \in Rejections :
             /\ db_entities' = IF rej THEN db_entities
                               ELSE Append(db_entities,
                      [ coll |-> CollectionOf(tk.entity_type),
                        field |-> FieldOf(display_name_lower),
                        name |-> tk.entity_name,
                        params |-> tk.params,
                        type |-> FindType(tk.entity_type),
                        associatedUsers |-> <<user_id>>,
                        by |-> tk.origin ])
             /\ etasks' = [etasks EXCEPT
                              ![t].new_doc = ~rej,
                              ![t].ret = IF rej THEN @ ELSE Id("ent", Len(db_entities) + 1),
                              ![t].pc = IF rej THEN "ins_rej" ELSE "ins"]
             /\ faults' = IF rej THEN faults - 1 ELSE faults
    /\ UNCHANGED <<active_entities, db_audits, audit_budget>>
    /\ EFrame

\* lines 149 and 173: the update or the insert has returned, _log_audit
ME_Written(t) ==
    /\ etasks[t].pc \in {"upd", "ins"}
    /\ \E ok \in AuditOutcomes :
         /\ db_audits' = LogAudit(db_audits, ok)
         /\ audit_budget' = IF AuditFailed(ok) THEN audit_budget - 1 ELSE audit_budget
         /\ etasks' = [etasks EXCEPT
                          ![t].pc = AfterAudit(IF @ = "upd" THEN "upd_aud" ELSE "ins_aud",
                                               AuditFailed(ok)),
                          ![t].aud_failed = @ \/ AuditFailed(ok)]
    /\ UNCHANGED <<active_entities, db_entities, faults>>
    /\ EFrame

\* lines 150 and 174
ME_Audited(t) ==
    /\ etasks[t].pc \in {"upd_aud", "ins_aud"}
    /\ etasks' = [etasks EXCEPT
                     ![t].ret = IF etasks[t].pc = "upd_aud" THEN etasks[t].existing ELSE @,
                     ![t].pc = "done"]
    /\ UNCHANGED <<active_entities, db_entities, db_audits, audit_budget, faults>>
    /\ EFrame

merge_entity(t) ==
    /\ \/ ME_Start(t)
       \/ ME_ActiveLoaded(t)
       \/ ME_UserFound(t)
       \/ ME_Found(t)
       \/ ME_TypeFound(t)
       \/ ME_Written(t)
       \/ ME_Audited(t)
    /\ Stretch(<<"merge_entity", t>>)

-----------------------------------------------------------------------------
(* Start-up, shared by main() and by the fan-out drivers.                  *)

\* (mutation of authenticate: the user document is not checked)
authenticate_Unchecked ==
    /\ mpc = "new"
    /\ user_id' = FindUser(username)
    /\ mpc' = "authed"
    /\ UNCHANGED <<store_vars, username, active_entities, relation_types, relations,
                   relation_type_locks, task_vars, populated, calls, returned, main_vars,
                   faults, fn_vars, loop_vars>>

\* authenticate / _set_user_context (77-87): ValueError when the operator
\* has no record in users
authenticate ==
    /\ mpc = "new"
    /\ IF FindUser(username) = None
       THEN /\ mpc' = "aborted"
            /\ UNCHANGED user_id
       ELSE /\ user_id' = FindUser(username)
            /\ mpc' = "authed"
    /\ UNCHANGED <<store_vars, username, active_entities, relation_types, relations,
                   relation_type_locks, task_vars, populated, calls, returned, main_vars,
                   faults, fn_vars, loop_vars>>

\* __main__.py 193-197, the gather of the three loaders: each of them
\* assigns its cache when its cursor is exhausted, in any order
StartupFrame == UNCHANGED <<store_vars, username, user_id, relation_type_locks,
                            task_vars, calls, returned, main_vars, fn_vars, late>>
NoneLoaded == ~active_entities.has /\ ~relation_types.has /\ ~relations.has
AllLoaded == \A l \in Loaders : ltasks[l] = "done"
SomeLoaderRaised == \E l \in Loaders : ltasks[l] = "raised"

\* the find of loader l is awaited: by the gather of the caller, or, after
\* another loader has made the gather fail, until asyncio.run cancels it
LoaderRuns(l) ==
    /\ ltasks[l] = "pending"
    /\ mpc = "authed" \/ (mpc = "failed" /\ SomeLoaderRaised)

\* db_handler.py 89-94
LoadActiveEntities ==
    /\ LoaderRuns("active_entities")
    /\ active_entities' = Loaded(get_active_entities)
    /\ ltasks' = [ltasks EXCEPT !["active_entities"] = "done"]
    /\ UNCHANGED <<relation_types, relations, mpc, populated, faults>>
    /\ StartupFrame

\* db_handler.py 96-101
LoadRelationTypes ==
    /\ LoaderRuns("relation_types")
    /\ relation_types' = Loaded(get_relationTypes(db_relationtypes))
    /\ ltasks' = [ltasks EXCEPT !["relation_types"] = "done"]
    /\ UNCHANGED <<active_entities, relations, mpc, populated, faults>>
    /\ StartupFrame

\* db_handler.py 103-108
LoadRelations ==
    /\ LoaderRuns("relations")
    /\ relations' = Loaded(get_relations(db_relations))
    /\ ltasks' = [ltasks EXCEPT !["relations"] = "done"]
    /\ UNCHANGED <<active_entities, relation_types, mpc, populated, faults>>
    /\ StartupFrame

\* the gather returns to its caller once the three loaders have returned
PopulateCaches ==
    /\ mpc = "authed"
    /\ AllLoaded
    /\ mpc' = "populated"
    /\ populated' = TRUE
    /\ UNCHANGED <<active_entities, relation_types, relations, ltasks, faults>>
    /\ StartupFrame

-----------------------------------------------------------------------------
(* Failures of the store.  Every awaited call of the driver (command,      *)
(* find, find_one, insert_one, update_one) can raise.  A read that raises  *)
(* has changed nothing.  A write that raises was either rejected (nothing  *)
(* is stored) or stored with its answer lost.  _log_audit alone catches    *)
(* the exception of its insert.                                            *)

AwaitedReadsE == {"load_act", "user_find", "found", "type_find"}
AwaitedWritesE == {"upd", "ins"}
RejectedWritesE == {"upd_rej", "ins_rej"}

\* db_handler.py 117, 127, 137, 142, 167, 171: the awaited call raises and
\* the exception leaves merge_entity
ME_Raise(t) ==
    /\ mpc \in {"ebatch", "failed"}
    /\ \/ /\ etasks[t].pc \in AwaitedReadsE \cup AwaitedWritesE
          /\ faults > 0
          /\ faults' = faults - 1
       \/ /\ etasks[t].pc \in RejectedWritesE
          /\ UNCHANGED faults
    /\ etasks' = [etasks EXCEPT ![t].pc = "raised"]
    /\ Stretch(<<"merge_entity", t>>)
    /\ UNCHANGED <<store_vars, mg_vars, rtasks, ltasks, mpc, populated, calls, returned,
                   main_vars, fn_vars>>

AwaitedReadsR == {"load_rt", "src_find", "trg_find", "load_rel"}
AwaitedWritesR == {"rt_ins", "rel_ins"}

\* (mutation of MR_Raise: the exception leaves the lock with the call)
MR_Raise_LockKept(t) ==
    /\ mpc \in {"rbatch", "gather", "failed"}
    /\ \/ /\ rtasks[t].pc \in AwaitedReadsR \cup AwaitedWritesR
          /\ faults > 0
          /\ faults' = faults - 1
       \/ /\ rtasks[t].pc \in RejectedWrites
          /\ UNCHANGED faults
    /\ rtasks' = [rtasks EXCEPT ![t].pc = "raised"]
    /\ Stretch(<<"merge_relation", t>>)
    /\ UNCHANGED <<store_vars, username, user_id, active_entities, relation_types,
                   relations, relation_type_locks, etasks, ltasks, mpc, populated,
                   calls, returned, main_vars, fn_vars>>

\* db_handler.py 178, 180, 181, 201, 208, 219: the awaited call raises and
\* the exception leaves merge_relation; on its way out of the `async with`
\* of line 191 it releases the lock, and line 205 is not reached
MR_Raise(t) ==
    /\ mpc \in {"rbatch", "gather", "failed"}
    /\ \/ /\ rtasks[t].pc \in AwaitedReadsR \cup AwaitedWritesR
          /\ faults > 0
          /\ faults' = faults - 1
       \/ /\ rtasks[t].pc \in RejectedWrites
          /\ UNCHANGED faults
    /\ rtasks' = [rtasks EXCEPT ![t].pc = "raised"]
    /\ relation_type_locks' = Release(relation_type_locks, t)
    /\ Stretch(<<"merge_relation", t>>)
    /\ UNCHANGED <<store_vars, username, user_id, active_entities, relation_types,
                   relations, etasks, ltasks, mpc, populated, calls, returned,
                   main_vars, fn_vars>>

\* db_handler.py 89-107: the find of a loader raises and the exception
\* leaves the loader; its cache is not assigned
LoadRaises(l) ==
    /\ LoaderRuns(l)
    /\ faults > 0
    /\ faults' = faults - 1
    /\ ltasks' = [ltasks EXCEPT ![l] = "raised"]
    /\ UNCHANGED <<store_vars, mg_vars, task_vars, late, drv_vars, main_vars, fn_vars>>

\* db_handler.py 84-85 and 78: the ping or the lookup of the operator
\* raises in authenticate, which main() awaits itself (line 190); main()
\* has no handler
M_StartupRaises ==
    /\ mpc = "new"
    /\ faults > 0
    /\ faults' = faults - 1
    /\ mpc' = "failed"
    /\ UNCHANGED <<store_vars, mg_vars, task_vars, populated, calls, returned,
                   main_vars, fn_vars, loop_vars>>

\* __main__.py 193: the gather of the loaders hands the exception of a
\* loader to main(), which has no handler
M_LoadersFailed ==
    /\ mpc = "authed"
    /\ SomeLoaderRaised
    /\ mpc' = "failed"
    /\ UNCHANGED <<store_vars, mg_vars, task_vars, populated, calls, returned,
                   main_vars, faults, fn_vars, loop_vars>>

\* __main__.py 215 and 322: gather hands the first exception of a call to
\* its caller, which has no handler; the other calls stay suspended
M_BatchFailed ==
    /\ mpc \in {"ebatch", "rbatch", "gather"}
    /\ \/ \E t \in 1..Len(etasks) : etasks[t].pc = "raised"
       \/ \E t \in 1..Len(rtasks) : rtasks[t].pc = "raised"
    /\ mpc' = "failed"
    /\ UNCHANGED <<store_vars, mg_vars, task_vars, populated, calls, returned,
                   main_vars, faults, fn_vars, loop_vars>>

Settled(tk) == tk.pc \in {"done", "raised", "cancelled"}
Cancel(tasks) ==
    [t \in 1..Len(tasks) |->
        IF Settled(tasks[t]) THEN tasks[t] ELSE [tasks[t] EXCEPT !.pc = "cancelled"]]

\* the caller has failed and a call or a loader of its gather is suspended
Winding ==
    /\ mpc = "failed"
    /\ \/ \E t \in 1..Len(etasks) : ~Settled(etasks[t])
       \/ \E t \in 1..Len(rtasks) : ~Settled(rtasks[t])
       \/ SomeLoaderRaised /\ \E l \in Loaders : ltasks[l] = "pending"

\* __main__.py 339: asyncio.run cancels the calls and the loaders that are
\* still suspended; each of them leaves its `async with`, and the run is
\* over
M_Cancelled ==
    /\ Winding
    /\ etasks' = Cancel(etasks)
    /\ rtasks' = Cancel(rtasks)
    /\ ltasks' = [l \in Loaders |->
                     IF SomeLoaderRaised /\ ltasks[l] = "pending" THEN "cancelled"
                     ELSE ltasks[l]]
    /\ relation_type_locks' = <<>>
    /\ UNCHANGED <<store_vars, username, user_id, active_entities, relation_types,
                   relations, late, drv_vars, main_vars, faults, fn_vars>>

-----------------------------------------------------------------------------
(* Fan-out driver: a caller that constructs a MongoDirect, authenticates,  *)
(* optionally fetches the caches as main() does, and then gathers          *)
(* concurrent merge_relation calls with arguments of its choice.           *)

\* argument tuples of the gathered merge_relation calls
MRArgs ==
    << <<"wrote", "persons", "concept", Id("ent", 1), Id("ent", 2)>>,
       <<"wrote", "persons", "concept", Id("ent", 1), Id("ent", 3)>>,
       <<"cites", "persons", "concept", Id("ent", 1), Id("ent", 2)>>,
       <<"wrote", "nodoc",   "concept", Id("ent", 1), Id("ent", 2)>>,
       <<"wrote", "persons", "nodoc",   Id("ent", 1), Id("ent", 2)>> >>

\* history of a run of main(): its index, the keys of the entities
\* merge_entity was started for, the merge_entity results folded so far,
\* whether entities.json was rewritten, whether relation building began
NewRun(n) ==
    [n |-> n, started |-> <<>>, results |-> {}, ents_saved |-> FALSE, building |-> FALSE]

\* the gathered lists, up to the order of the calls in the list
Picks(n, k) == {f \in [1..n -> 1..k] : \A i \in 1..n, j \in 1..n : i < j => f[i] <= f[j]}

MainIdle ==
    /\ dataset = <<>>
    /\ entities_file = NoFile
    /\ relations_file = NoFile
    /\ logged_entities = {}
    /\ logs = {}
    /\ cursor = 0
    /\ todo = <<>>
    /\ run = NewRun(0)
    /\ hist = <<>>

InitStore ==
    /\ db_entities = <<>>
    /\ db_relationtypes = <<>>
    /\ db_relations = <<>>
    /\ db_audits = 0

\* MongoDirect.__init__ (14-22)
Constructed ==
    /\ user_id = None
    /\ active_entities = Unset
    /\ relation_types = Unset
    /\ relations = Unset
    /\ relation_type_locks = <<>>

InitFan(budget) ==
    /\ InitStore
    /\ audit_budget = budget
    /\ faults = 0
    /\ username \in {"alice", "nobody"}
    /\ Constructed
    /\ etasks = <<>>
    /\ rtasks = <<>>
    /\ ltasks = LoadersPending
    /\ late = <<>>
    /\ mpc = "new"
    /\ populated = FALSE
    /\ calls = 0
    /\ returned = {}
    /\ MainIdle
    /\ fn_arg = NoCall
    /\ fn_res = Pending

H_LaunchRelations ==
    /\ mpc \in {"authed", "populated"}
    /\ mpc = "authed" => NoneLoaded
    /\ \E n \in 1..(IF mpc = "populated" THEN MaxTasks ELSE MaxLazyTasks) :
       \E f \in Picks(n, Len(MRArgs)) :
         rtasks' = [i \in 1..n |->
                      LET a == MRArgs[f[i]] IN NewRTask(a[1], a[2], a[3], a[4], a[5])]
    /\ etasks' = <<>>
    /\ mpc' = "gather"
    /\ UNCHANGED <<store_vars, mg_vars, populated, calls, returned, main_vars,
                   faults, fn_vars, loop_vars>>

\* (mutation of AllDone: the gather returns with its first result)
AllDone_FirstDone ==
    \/ \E t \in 1..Len(rtasks) : rtasks[t].pc = "done"
    \/ \E t \in 1..Len(etasks) : etasks[t].pc = "done"

AllDone == /\ \A t \in 1..Len(rtasks) : rtasks[t].pc = "done"
           /\ \A t \in 1..Len(etasks) : etasks[t].pc = "done"

\* results = await asyncio.gather(*tasks)
H_Gathered ==
    /\ mpc = "gather"
    /\ AllDone
    /\ mpc' = "idle"
    /\ UNCHANGED <<store_vars, mg_vars, task_vars, populated, calls, returned, main_vars,
                   faults, fn_vars, loop_vars>>

NextMR ==
    \/ authenticate
    \/ LoadActiveEntities
    \/ LoadRelationTypes
    \/ LoadRelations
    \/ PopulateCaches
    \/ H_LaunchRelations
    \/ H_Gathered
    \/ \E t \in 1..Len(rtasks) : merge_relation(t)

\* the store fails no audit insert here: the failures are left to SpecME and Spec
SpecMR == InitFan(0) /\ [][NextMR]_vars

\* The same driver with a store that can fail a call it is asked for, and
\* with the fairness of the event loop: while some call can take its next
\* step (its awaited store call has returned, or the lock it waits for is
\* its own), a call takes a step.
InitLive ==
    /\ InitStore
    /\ audit_budget = 0
    /\ faults = MaxStoreFaults
    /\ username = "alice"
    /\ Constructed
    /\ etasks = <<>>
    /\ rtasks = <<>>
    /\ ltasks = LoadersPending
    /\ late = <<>>
    /\ mpc = "new"
    /\ populated = FALSE
    /\ calls = 0
    /\ returned = {}
    /\ MainIdle
    /\ fn_arg = NoCall
    /\ fn_res = Pending

\* the largest gather whose calls may be for several relation-type keys
MaxMixedTasks == 2

\* the gather of main(): the caches are fetched, the types of the tuples
\* are canonical types of the store; a larger gather contends for one key
L_Launch ==
    /\ populated
    /\ H_LaunchRelations
    /\ \A t \in 1..Len(rtasks') : ~(FindType(rtasks'[t].src_type) = None
                                     \/ FindType(rtasks'[t].trg_type) = None)
    /\ Len(rtasks') > MaxMixedTasks =>
          \A t \in 1..Len(rtasks') :
             /\ rtasks'[t].relation_name = rtasks'[1].relation_name
             /\ rtasks'[t].src_type = rtasks'[1].src_type
             /\ rtasks'[t].trg_type = rtasks'[1].trg_type

NextLive ==
    \/ authenticate
    \/ LoadActiveEntities
    \/ LoadRelationTypes
    \/ LoadRelations
    \/ PopulateCaches
    \/ M_StartupRaises
    \/ \E l \in Loaders : LoadRaises(l)
    \/ M_LoadersFailed
    \/ L_Launch
    \/ H_Gathered
    \/ M_BatchFailed
    \/ M_Cancelled
    \/ \E t \in 1..Len(rtasks) : merge_relation(t)
    \/ \E t \in 1..Len(rtasks) : MR_Raise(t)

\* every store call returns a result or a failure, and the event loop runs
\* what is ready, a call or the cancellation by asyncio.run of what a failed
\* caller left suspended: no per-call guarantee is needed
Fairness ==
    WF_vars(\/ \E t \in 1..Len(rtasks) : merge_relation(t) \/ MR_Raise(t)
            \/ M_Cancelled)

SpecLive == InitLive /\ [][NextLive]_vars /\ Fairness

-----------------------------------------------------------------------------
(* Sequential caller: awaits MaxCalls merge_entity calls one after another *)
(* with arguments of its choice; between two calls it may start over with  *)
(* a new MongoDirect (a second run against the same store), possibly for   *)
(* another operator.                                                       *)

WithDate(d) == [p \in ParamNames |-> d]
MEArgs ==
    << <<"person",  "alice", NoParams>>,
       <<"person",  "carol", NoParams>>,
       <<"Concept", "carol", NoParams>>,
       <<"Concept", "carol", WithDate("1900")>>,
       <<"motif",   "carol", NoParams>>,
       <<"ghost",   "carol", NoParams>> >>

\* await mg.merge_entity(display_name, entity_name, params)
H_CallEntity ==
    /\ mpc \in {"authed", "populated", "idle"}
    /\ mpc = "authed" => NoneLoaded
    /\ calls < MaxCalls
    /\ \E i \in 1..Len(MEArgs) :
         etasks' = << NewETask(MEArgs[i][1], MEArgs[i][2], MEArgs[i][3]) >>
    /\ rtasks' = <<>>
    /\ calls' = calls + 1
    /\ mpc' = "gather"
    /\ UNCHANGED <<store_vars, mg_vars, populated, returned, main_vars,
                   faults, fn_vars, loop_vars>>

Outcome(tk) ==
    [ display_name |-> tk.display_name, entity_name |-> tk.entity_name,
      params |-> tk.params, ret |-> tk.ret, new_doc |-> tk.new_doc ]

H_EntityReturned ==
    /\ mpc = "gather"
    /\ AllDone
    /\ returned' = returned \cup {Outcome(etasks[t]) : t \in 1..Len(etasks)}
    /\ etasks' = <<>>
    /\ mpc' = "idle"
    /\ UNCHANGED <<store_vars, mg_vars, rtasks, populated, calls, main_vars,
                   faults, fn_vars, loop_vars>>

\* a second run: MongoDirect.__init__ again
H_Restart ==
    /\ mpc = "idle"
    /\ calls < MaxCalls
    /\ username' \in {"alice", "bob"}
    /\ user_id' = None
    /\ active_entities' = Unset
    /\ relation_types' = Unset
    /\ relations' = Unset
    /\ relation_type_locks' = <<>>
    /\ ltasks' = LoadersPending
    /\ late' = <<>>
    /\ populated' = FALSE
    /\ mpc' = "new"
    /\ UNCHANGED <<store_vars, task_vars, calls, returned, main_vars, faults, fn_vars>>

NextME ==
    \/ authenticate
    \/ LoadActiveEntities
    \/ LoadRelationTypes
    \/ LoadRelations
    \/ PopulateCaches
    \/ H_CallEntity
    \/ H_EntityReturned
    \/ H_Restart
    \/ \E t \in 1..Len(etasks) : merge_entity(t)

SpecME == InitFan(MaxAuditFailures) /\ [][NextME]_vars

-----------------------------------------------------------------------------
(* main() (__main__.py 177-335): one run of the pipeline, a kill of the    *)
(* process at any point, and the next run against the same store and the   *)
(* same output folder.                                                     *)
(*                                                                         *)
(* The workbook is represented by what the collectors make of it: the      *)
(* entity records in the order of all_entities, with distinct (type, name) *)
(* keys, and the pairs of entity keys the relation columns of its rows     *)
(* name.  BATCH_SIZE is 1000 in the source; the model scales it down.      *)

BATCH_SIZE == 2         \* entities or relations merged concurrently in one gather
MaxRuns == 2            \* runs of main() against the same store

Ent(type, name, params) == [type |-> type, name |-> name, params |-> params]
EKey(e) == <<e.type, e.name>>
Rel(name, k1, k2) == [name |-> name, e1 |-> k1, e2 |-> k2]

\* two homonyms of two types that share the default collection, a value of
\* an inactive type, and the relations the rows state between them; mapped
\* and dynamic are the values of the dicts the two collectors return
WorkbookA ==
    [ mapped  |-> << Ent("concept", "carol", NoParams),
                     Ent("motif",   "carol", NoParams),
                     Ent("ghost",   "gary",  NoParams) >>,
      dynamic |-> << Ent("concept", "carol", NoParams) >>,
      rels |-> { Rel("cites", <<"motif", "carol">>, <<"concept", "carol">>),
                 Rel("wrote", <<"ghost", "gary">>,  <<"concept", "carol">>) } ]
\* the same workbook with a sibling property filled in for one entity
WorkbookB ==
    [ mapped  |-> << Ent("concept", "carol", WithDate("1900")),
                     Ent("motif",   "carol", NoParams),
                     Ent("ghost",   "gary",  NoParams) >>,
      dynamic |-> WorkbookA.dynamic,
      rels |-> WorkbookA.rels ]

\* a workbook whose column is mapped to a type name written as the display
\* name of the type, with a capital, and a relation of the entity to itself
WorkbookC ==
    [ mapped  |-> << Ent("Concept", "carol", NoParams) >>,
      dynamic |-> << >>,
      rels |-> { Rel("cites", <<"Concept", "carol">>, <<"Concept", "carol">>) } ]

\* a workbook whose rows state three relations between two entities: more
\* relations than one batch holds
WorkbookD ==
    [ mapped  |-> << Ent("concept", "carol", NoParams),
                     Ent("motif",   "carol", NoParams) >>,
      dynamic |-> << >>,
      rels |-> { Rel("cites", <<"motif", "carol">>,   <<"concept", "carol">>),
                 Rel("cites", <<"concept", "carol">>, <<"motif", "carol">>),
                 Rel("wrote", <<"motif", "carol">>,   <<"concept", "carol">>) } ]

\* (mutation of all_entities: the two collections are put one after the other)
all_entities_Concatenated(dynamic_entities, mapped_entities) ==
    dynamic_entities \o mapped_entities

\* line 203, {**dynamic_entities, **mapped_entities}: the keys of the first
\* dict in their order, then the new keys of the second; the value of the
\* second dict for a key both have
all_entities(dynamic_entities, mapped_entities) ==
    LET InMapped(e) == \E j \in 1..Len(mapped_entities) : EKey(mapped_entities[j]) = EKey(e)
        OfMapped(e) == mapped_entities[CHOOSE j \in 1..Len(mapped_entities) :
                                          EKey(mapped_entities[j]) = EKey(e)]
        InDynamic(e) == \E i \in 1..Len(dynamic_entities) : EKey(dynamic_entities[i]) = EKey(e)
    IN  [i \in 1..Len(dynamic_entities) |->
            IF InMapped(dynamic_entities[i]) THEN OfMapped(dynamic_entities[i])
            ELSE dynamic_entities[i]]
        \o SelectSeq(mapped_entities, LAMBDA e : ~InDynamic(e))
\* line 205
entities_to_process(data) == all_entities(data.dynamic, data.mapped)

\* (mutation of InLoop: the loop stops one batch early)
InLoop_OneBatchShort(i, list) == i + BATCH_SIZE < Len(list)

\* for i in range(0, len(list), BATCH_SIZE): there is an iteration at i
InLoop(i, list) == i < Len(list)

\* list[i:i + BATCH_SIZE]
Batch(list, i) ==
    SubSeq(list, i + 1, IF i + BATCH_SIZE < Len(list) THEN i + BATCH_SIZE ELSE Len(list))

\* (mutation of FoldEntities: every batch starts a new dict)
RECURSIVE FoldEntities_PerBatch(_, _, _)
FoldEntities_PerBatch(le, tasks, i) ==
    IF i > Len(tasks) THEN {}
    ELSE LET rest == FoldEntities_PerBatch(le, tasks, i + 1)
             k == <<tasks[i].display_name, tasks[i].entity_name>>
         IN  IF tasks[i].ret # None /\ ~Has(rest, k)
             THEN Put(rest, k, Str(tasks[i].ret)) ELSE rest

\* lines 217-224: the ids of the batch are written into logged_entities
RECURSIVE FoldEntities(_, _, _)
FoldEntities(le, tasks, i) ==
    IF i > Len(tasks) THEN le
    ELSE FoldEntities(
            IF tasks[i].ret # None
            THEN Put(le, <<tasks[i].display_name, tasks[i].entity_name>>, Str(tasks[i].ret))
            ELSE le,
            tasks, i + 1)

\* lines 324-330: the ids of the batch are appended to logs[name][src_type]
RECURSIVE FoldRelations(_, _, _)
FoldRelations(lg, tasks, i) ==
    IF i > Len(tasks) THEN lg
    ELSE LET tk == tasks[i]
             k == <<tk.relation_name, tk.src_type>>
             old == GetOr(lg, k, <<>>)
         IN  FoldRelations(
                IF tk.ret # None /\ Str(tk.ret) \notin Range(old)
                THEN Put(lg, k, Append(old, Str(tk.ret)))
                ELSE lg,
                tasks, i + 1)

\* lines 256-259: both entities of the pair have an id in logged_entities
Resolved(le, r) == Has(le, r.e1) /\ Has(le, r.e2)
\* lines 264-265: mg.active_entities[display_type], a KeyError for a missing key
Unknown(act, r) == ~Has(act, r.e1[1]) \/ ~Has(act, r.e2[1])
\* lines 260-268
RelTuple(le, act, r) ==
    << r.name, Get(act, r.e1[1]), Get(act, r.e2[1]),
       ObjectId(Get(le, r.e1)), ObjectId(Get(le, r.e2)) >>

\* the order of the strings that occur: relation names, and the hex strings
\* of ObjectIds, which grow with the time of creation
NameRank(n) == CASE n = "cites" -> 1 [] n = "wrote" -> 2 [] OTHER -> 3
StrRank(id) == (IF id[1] = "usr" THEN 0 ELSE 100) + id[2]
SortKeyLeq(a, b) ==
    \/ NameRank(a[1]) < NameRank(b[1])
    \/ /\ NameRank(a[1]) = NameRank(b[1])
       /\ \/ StrRank(a[4]) < StrRank(b[4])
          \/ StrRank(a[4]) = StrRank(b[4]) /\ StrRank(a[5]) <= StrRank(b[5])
\* line 314: sorted(list(set(relations_to_create)), key=...).  sorted() is
\* stable and list(set(...)) lists the tuples in the iteration order of the
\* set, which follows their hashes (those of str differ from process to
\* process): tuples with equal keys come out in any order.  The set of the
\* lists the line can produce.
unique_relations(relations_to_create) ==
    LET tuples == Range(relations_to_create)
    IN  { s \in [1..Cardinality(tuples) -> tuples] :
            \A i, j \in DOMAIN s : i < j => s[i] # s[j] /\ SortKeyLeq(s[i], s[j]) }

\* a list that holds the elements of a set
AsList(S) == CHOOSE q \in [1..Cardinality(S) -> S] : \A x \in S : \E i \in DOMAIN q : q[i] = x

\* main() is started on one of the workbooks
InitOn(workbooks) ==
    /\ InitStore
    /\ audit_budget = MaxAuditFailures
    /\ username \in {"alice", "bob", "nobody"}
    /\ Constructed
    /\ etasks = <<>>
    /\ rtasks = <<>>
    /\ ltasks = LoadersPending
    /\ late = <<>>
    /\ mpc = "new"
    /\ populated = FALSE
    /\ calls = 0
    /\ returned = {}
    /\ dataset \in workbooks
    /\ entities_file = NoFile
    /\ relations_file = NoFile
    /\ logged_entities = {}
    /\ logs = {}
    /\ cursor = 0
    /\ todo = <<>>
    /\ run = NewRun(1)
    /\ hist = <<>>
    /\ faults = MaxStoreFaults
    /\ fn_arg = NoCall
    /\ fn_res = Pending

InitMain == InitOn({WorkbookA, WorkbookC})

\* lines 200-205: entities_to_process
M_CollectEntities ==
    /\ mpc = "populated"
    /\ todo' = entities_to_process(dataset)
    /\ cursor' = 0
    /\ mpc' = "eloop"
    /\ UNCHANGED <<store_vars, mg_vars, task_vars, populated, calls, returned,
                   dataset, entities_file, relations_file, logged_entities, logs,
                   run, hist, faults, fn_vars, loop_vars>>

\* lines 212-215: the merge_entity calls of the next batch are gathered
M_LaunchEntityBatch ==
    /\ mpc = "eloop"
    /\ InLoop(cursor, todo)
    /\ LET batch == Batch(todo, cursor)
       IN  etasks' = [k \in 1..Len(batch) |->
                        [NewETask(batch[k].type, batch[k].name, batch[k].params)
                            EXCEPT !.origin = <<run.n, EKey(batch[k])>>]]
    /\ run' = [run EXCEPT !.started = @ \o [k \in 1..Len(Batch(todo, cursor)) |->
                                              EKey(Batch(todo, cursor)[k])]]
    /\ mpc' = "ebatch"
    /\ UNCHANGED <<store_vars, mg_vars, rtasks, populated, calls, returned,
                   dataset, entities_file, relations_file, logged_entities, logs,
                   cursor, todo, hist, faults, fn_vars, loop_vars>>

\* lines 215-225: the gather has returned, the results are folded
M_EntityBatchDone ==
    /\ mpc = "ebatch"
    /\ AllDone
    /\ logged_entities' = FoldEntities(logged_entities, etasks, 1)
    /\ run' = [run EXCEPT !.results = @ \cup
                 {<<etasks[t].origin[2], etasks[t].ret>> : t \in 1..Len(etasks)}]
    /\ returned' = returned \cup {Outcome(etasks[t]) : t \in 1..Len(etasks)}
    /\ cursor' = cursor + BATCH_SIZE
    /\ mpc' = "eloop"
    /\ UNCHANGED <<store_vars, mg_vars, task_vars, populated, calls,
                   dataset, entities_file, relations_file, logs, todo, hist,
                   faults, fn_vars, loop_vars>>

\* lines 227-228: entities.json is rewritten
M_WriteEntitiesFile ==
    /\ mpc = "eloop"
    /\ ~InLoop(cursor, todo)
    /\ entities_file' = json_dump(logged_entities)
    /\ run' = [run EXCEPT !.ents_saved = TRUE]
    /\ mpc' = "ents_saved"
    /\ UNCHANGED <<store_vars, mg_vars, task_vars, populated, calls, returned,
                   dataset, relations_file, logged_entities, logs, cursor, todo, hist,
                   faults, fn_vars, loop_vars>>

\* lines 231-314: the relation tuples of the rows, deduplicated and sorted
M_BuildRelations ==
    /\ mpc = "ents_saved"
    /\ LET found == {r \in dataset.rels : Resolved(logged_entities, r)}
       IN  IF \E r \in found : Unknown(active_entities.d, r)
           THEN /\ mpc' = "failed"
                /\ UNCHANGED <<todo, cursor>>
           ELSE /\ todo' \in unique_relations(AsList(
                              {RelTuple(logged_entities, active_entities.d, r) : r \in found}))
                /\ cursor' = 0
                /\ mpc' = "rloop"
    /\ run' = [run EXCEPT !.building = TRUE]
    /\ UNCHANGED <<store_vars, mg_vars, task_vars, populated, calls, returned,
                   dataset, entities_file, relations_file, logged_entities, logs, hist,
                   faults, fn_vars, loop_vars>>

\* the input relation a tuple was built for
OriginOf(tuple) ==
    CHOOSE r \in dataset.rels :
        /\ Resolved(logged_entities, r)
        /\ RelTuple(logged_entities, active_entities.d, r) = tuple

\* lines 319-322: the merge_relation calls of the next batch are gathered
M_LaunchRelationBatch ==
    /\ mpc = "rloop"
    /\ InLoop(cursor, todo)
    /\ LET batch == Batch(todo, cursor)
       IN  rtasks' = [k \in 1..Len(batch) |->
                        [NewRTask(batch[k][1], batch[k][2], batch[k][3],
                                  batch[k][4], batch[k][5])
                            EXCEPT !.origin = <<run.n, OriginOf(batch[k])>>]]
    /\ mpc' = "rbatch"
    /\ UNCHANGED <<store_vars, mg_vars, etasks, populated, calls, returned, main_vars,
                   faults, fn_vars, loop_vars>>

\* lines 322-331
M_RelationBatchDone ==
    /\ mpc = "rbatch"
    /\ AllDone
    /\ logs' = FoldRelations(logs, rtasks, 1)
    /\ cursor' = cursor + BATCH_SIZE
    /\ mpc' = "rloop"
    /\ UNCHANGED <<store_vars, mg_vars, task_vars, populated, calls, returned,
                   dataset, entities_file, relations_file, logged_entities, todo,
                   run, hist, faults, fn_vars, loop_vars>>

\* lines 333-335: relations.json is rewritten, the run is over
M_WriteRelationsFile ==
    /\ mpc = "rloop"
    /\ ~InLoop(cursor, todo)
    /\ relations_file' = json_dump(logs)
    /\ mpc' = "done"
    /\ UNCHANGED <<store_vars, mg_vars, task_vars, populated, calls, returned,
                   dataset, entities_file, logged_entities, logs, cursor, todo,
                   run, hist, faults, fn_vars, loop_vars>>

Running == mpc \notin {"done", "aborted", "failed", "crashed"} \/ Winding

\* The process is killed.  Everything it held in memory is gone; the store
\* and the files stay as they are, except that a kill during json.dump
\* leaves the file it had opened for writing truncated.
Crash ==
    /\ Running
    /\ run.n < MaxRuns
    /\ \/ UNCHANGED <<entities_file, relations_file>>
       \/ /\ mpc = "eloop" /\ ~InLoop(cursor, todo)
          /\ entities_file' = Truncated
          /\ UNCHANGED relations_file
       \/ /\ mpc = "rloop" /\ ~InLoop(cursor, todo)
          /\ relations_file' = Truncated
          /\ UNCHANGED entities_file
    /\ mpc' = "crashed"
    /\ etasks' = <<>>
    /\ rtasks' = <<>>
    /\ user_id' = None
    /\ active_entities' = Unset
    /\ relation_types' = Unset
    /\ relations' = Unset
    /\ relation_type_locks' = <<>>
    /\ ltasks' = LoadersPending
    /\ late' = <<>>
    /\ logged_entities' = {}
    /\ logs' = {}
    /\ todo' = <<>>
    /\ cursor' = 0
    /\ populated' = FALSE
    /\ run' = NewRun(run.n)
    /\ UNCHANGED <<store_vars, username, calls, returned, dataset, hist,
                   faults, fn_vars>>

\* what a run leaves behind
Left == [ dataset |-> dataset, username |-> username, outcome |-> mpc,
          db_entities |-> db_entities, db_relationtypes |-> db_relationtypes,
          db_relations |-> db_relations ]

\* The next run: lines 183-189, the caches are loaded from the two files and
\* a new MongoDirect is constructed; an exception of load_json_cache ends
\* the run
M_Rerun ==
    /\ ~Running
    /\ run.n < MaxRuns
    /\ hist' = Append(hist, Left)
    /\ run' = NewRun(run.n + 1)
    /\ dataset' \in {dataset, WorkbookB}
    /\ username' = "alice"
    /\ LET le == load_json_cache(entities_file)
           lg == load_json_cache(relations_file)
       IN  /\ logged_entities' = le.cache
           /\ logs' = lg.cache
           /\ mpc' = IF le.raised \/ lg.raised THEN "failed" ELSE "new"
    /\ user_id' = None
    /\ active_entities' = Unset
    /\ relation_types' = Unset
    /\ relations' = Unset
    /\ relation_type_locks' = <<>>
    /\ ltasks' = LoadersPending
    /\ late' = <<>>
    /\ etasks' = <<>>
    /\ rtasks' = <<>>
    /\ todo' = <<>>
    /\ cursor' = 0
    /\ populated' = FALSE
    /\ UNCHANGED <<store_vars, calls, returned, entities_file, relations_file,
                   faults, fn_vars>>

Next ==
    \/ authenticate
    \/ LoadActiveEntities
    \/ LoadRelationTypes
    \/ LoadRelations
    \/ PopulateCaches
    \/ M_StartupRaises
    \/ \E l \in Loaders : LoadRaises(l)
    \/ M_LoadersFailed
    \/ M_CollectEntities
    \/ M_LaunchEntityBatch
    \/ \E t \in 1..Len(etasks) : merge_entity(t)
    \/ M_EntityBatchDone
    \/ M_WriteEntitiesFile
    \/ M_BuildRelations
    \/ M_LaunchRelationBatch
    \/ \E t \in 1..Len(rtasks) : merge_relation(t)
    \/ M_RelationBatchDone
    \/ M_WriteRelationsFile
    \/ \E t \in 1..Len(etasks) : ME_Raise(t)
    \/ \E t \in 1..Len(rtasks) : MR_Raise(t)
    \/ M_BatchFailed
    \/ M_Cancelled
    \/ Crash
    \/ M_Rerun

Spec == InitMain /\ [][Next]_vars

\* the runs of main() on a workbook with more than one batch of entities
\* (WorkbookA) or of relations (WorkbookD)
InitBatches == InitOn({WorkbookA, WorkbookC, WorkbookD})
SpecBatches == InitBatches /\ [][Next]_vars

-----------------------------------------------------------------------------
(* The functions of __main__.py and mango/spoon.py, applied on their own.  *)
(* A str is a sequence of one-character strings.                           *)

MaxPrefixParts == 3     \* pieces a value given to get_dynamic_entity_type is made of
MaxValueLen == 3        \* characters of a str given to normalize_value

StartsWith(s, p) == Len(p) <= Len(s) /\ SubSeq(s, 1, Len(p)) = p

\* str.lower()
LowerChar(c) ==
    CASE c = "A" -> "a" [] c = "B" -> "b" [] c = "C" -> "c" [] c = "D" -> "d"
      [] c = "E" -> "e" [] c = "F" -> "f" [] c = "G" -> "g" [] c = "H" -> "h"
      [] c = "I" -> "i" [] c = "J" -> "j" [] c = "K" -> "k" [] c = "L" -> "l"
      [] c = "M" -> "m" [] c = "N" -> "n" [] c = "O" -> "o" [] c = "P" -> "p"
      [] c = "Q" -> "q" [] c = "R" -> "r" [] c = "S" -> "s" [] c = "T" -> "t"
      [] c = "U" -> "u" [] c = "V" -> "v" [] c = "W" -> "w" [] c = "X" -> "x"
      [] c = "Y" -> "y" [] c = "Z" -> "z"
      [] c = "A^" -> "a^" [] c = "C^" -> "c^" [] c = "E^" -> "e^" [] c = "G^" -> "g^"
      [] c = "H^" -> "h^" [] c = "I^" -> "i^" [] c = "J^" -> "j^" [] c = "O^" -> "o^"
      [] c = "S^" -> "s^" [] c = "U^" -> "u^" [] c = "W^" -> "w^" [] c = "Y^" -> "y^"
      [] c = "Z^" -> "z^"
      [] OTHER -> c
lower(s) == [i \in 1..Len(s) |-> LowerChar(s[i])]

\* all concatenations of at most n pieces
RECURSIVE Words(_, _)
Words(pieces, n) ==
    IF n = 0 THEN {<<>>}
    ELSE LET shorter == Words(pieces, n - 1)
         IN  shorter \cup {w \o q : w \in shorter, q \in pieces}

\* config.py 23-40: prefix_map, in the order of the dict
prefix_map ==
    << << <<"p", "_">>,                               "person" >>,
       << <<"w", "_">>,                               "work" >>,
       << <<"e", "x", "_">>,                          "expression" >>,
       << <<"m", "_">>,                               "manifestation" >>,
       << <<"m", "_", "v", "o", "l", "_">>,           "manifestation" >>,
       << <<"i", "_">>,                               "item" >>,
       << <<"P", "O", "_">>,                          "physical_object" >>,
       << <<"P", "O", "_", "P", "A", "G", "_">>,      "physical_object" >>,
       << <<"P", "A", "G", "_">>,                     "page" >>,
       << <<"V", "O", "_">>,                          "visual_object" >>,
       << <<"e", "_">>,                               "event" >>,
       << <<"a", "c", "_">>,                          "abstract_character" >>,
       << <<"i", "n", "s", "t", "_">>,                "institution" >>,
       << <<"l", "o", "c", "_">>,                     "place" >>  >>

\* A column name is the sequence of the words that "_" joins in it.
dynamically_typed_columns ==
    { <<"PERSON", "CHARACTER", "ID", "A">>, <<"PERSON", "CHARACTER", "ID", "B">>,
      <<"HYPOTHESIS", "ABOUT", "ID(S)">>, <<"MENTIONING", "ID">>, <<"MENTIONED", "ID">>,
      <<"AUTHOR", "WORK", "ID">>, <<"OTHER", "SECONDARY", "ROLE", "ID">>,
      <<"TRANSLATOR", "ID">>, <<"EDITOR", "ID">>, <<"SCRIPTWRITER", "ID">>,
      <<"COMPOSITOR", "ID">>, <<"REVIEWER", "ID">>,
      <<"PUBLISHER", "MANIFESTATION", "ID">>, <<"EDITOR", "MANIFESTATION", "ID">>,
      <<"CORRECTOR", "MANIFESTATION", "ID">>, <<"SPONSOR", "MANIFESTATION", "ID">>,
      <<"OWNER", "OF", "ITEM", "ID">>, <<"OWNERSHIP", "OF", "VISUAL", "ID">>,
      <<"INSCRIBER", "VISUAL", "ID">>, <<"SENDER", "VISUAL", "ID">>,
      <<"RECIPIENT", "VISUAL", "ID">>, <<"OWNERSHIP", "OF", "PHYSICAL", "OBJECT", "ID">>,
      <<"CREATOR", "OF", "PHYSICAL", "OBJECT", "ID">> }
\* column_name.endswith(suffix), the suffix starting with "_"
EndsWithWords(column, suffix) ==
    /\ Len(column) > Len(suffix)
    /\ SubSeq(column, Len(column) - Len(suffix) + 1, Len(column)) = suffix
\* lines 103-104
IsDynamicColumn(column_name) ==
    \/ EndsWithWords(column_name, <<"MENTIONING">>)
    \/ EndsWithWords(column_name, <<"MENTIONED", "BY">>)
    \/ EndsWithWords(column_name, <<"HYPOTHESIS", "OF">>)
    \/ column_name \in dynamically_typed_columns

\* lines 107-109: the first entry of prefix_map, in the order of the dict,
\* whose lower-cased prefix starts the lower-cased value
RECURSIVE FirstPrefix(_, _, _)
FirstPrefix(table, str_value_lower, i) ==
    IF i > Len(table) THEN 0
    ELSE IF StartsWith(str_value_lower, lower(table[i][1])) THEN i
    ELSE FirstPrefix(table, str_value_lower, i + 1)

\* (mutation of get_dynamic_entity_type: the value is compared as it is spelt)
get_dynamic_entity_type_CaseSensitive(column_name, value, default_mapping) ==
    LET hit == FirstPrefix(prefix_map, value, 1)
    IN  IF IsDynamicColumn(column_name) /\ hit # 0
        THEN prefix_map[hit][2]
        ELSE GetOr(default_mapping, column_name, Absent)

\* get_dynamic_entity_type (72-110); Absent stands for None
get_dynamic_entity_type(column_name, value, default_mapping) ==
    LET hit == FirstPrefix(prefix_map, lower(value), 1)
    IN  IF IsDynamicColumn(column_name) /\ hit # 0
        THEN prefix_map[hit][2]
        ELSE GetOr(default_mapping, column_name, Absent)

\* ---- normalize_value (__main__.py 42-69) --------------------------------
(* A raw cell value is None, a number (NaN and the infinities included)     *)
(* or a str.                                                               *)
(* The characters: " " a space, "\n" any of newline, carriage return and   *)
(* tab, "^" the combining circumflex U+0302 (after a letter), a letter     *)
(* followed by ^ ("a^", "A^", "e^", ...) the single precomposed character  *)
(* (U+00E2, U+00C2, U+00EA, ...); the digits are the ASCII digits.         *)
(* A natural number is the sequence of its decimal digits (0..9), most     *)
(* significant first and without leading zeros; zero is the empty          *)
(* sequence.                                                               *)
(* A number is a Python int or a float (a double).  A finite number is     *)
(* kept as sign, significant digits ds and the position pt of the decimal  *)
(* point after the first pt of them: the value is 0.ds * 10^pt.  For a     *)
(* float, ds are the digits of repr: the shortest decimal that the double  *)
(* is the nearest one to.                                                  *)
PyNone == [t |-> "none"]
PyStr(chars) == [t |-> "str", s |-> chars]
PyRaise(exc) == [t |-> "raise", exc |-> exc]
PyInt(neg, ds) ==
    [t |-> "num", float |-> FALSE, kind |-> "fin", neg |-> neg, ds |-> ds, pt |-> Len(ds)]
PyFloat(neg, ds, pt) ==
    [t |-> "num", float |-> TRUE, kind |-> "fin", neg |-> neg, ds |-> ds, pt |-> pt]
PyInf(neg) ==
    [t |-> "num", float |-> TRUE, kind |-> "inf", neg |-> neg, ds |-> <<>>, pt |-> 0]
PyNaN == [t |-> "num", float |-> TRUE, kind |-> "nan", neg |-> FALSE, ds |-> <<>>, pt |-> 0]

Digits == <<"0", "1", "2", "3", "4", "5", "6", "7", "8", "9">>
IsDigit(c) == \E i \in 1..10 : Digits[i] = c
DigitVal(c) == (CHOOSE i \in 1..10 : Digits[i] = c) - 1
IsSpace(c) == c \in {" ", "\n"}

\* str.strip()
RECURSIVE LStrip(_)
LStrip(cs) == IF cs # <<>> /\ IsSpace(cs[1]) THEN LStrip(Tail(cs)) ELSE cs
RECURSIVE RStrip(_)
RStrip(cs) ==
    IF cs # <<>> /\ IsSpace(cs[Len(cs)]) THEN RStrip(SubSeq(cs, 1, Len(cs) - 1)) ELSE cs
strip(cs) == RStrip(LStrip(cs))

\* .replace('\n', ' ').replace('\r', ' ').replace('\t', ' ')
replace_breaks(cs) == [i \in 1..Len(cs) |-> IF cs[i] = "\n" THEN " " ELSE cs[i]]

\* unicodedata.normalize('NFC', s): a base letter and the combining mark
\* after it become the precomposed letter; the letters that have one with
\* U+0302 are a c e g h i j o s u w y z and their capitals
Compose(base) ==
    IF base \in {"a", "c", "e", "g", "h", "i", "j", "o", "s", "u", "w", "y", "z",
                 "A", "C", "E", "G", "H", "I", "J", "O", "S", "U", "W", "Y", "Z"}
    THEN base \o "^"
    ELSE ""
RECURSIVE NFC(_)
NFC(cs) ==
    IF Len(cs) < 2 THEN cs
    ELSE IF cs[2] = "^" /\ Compose(cs[1]) # ""
         THEN <<Compose(cs[1])>> \o NFC(SubSeq(cs, 3, Len(cs)))
         ELSE <<cs[1]>> \o NFC(Tail(cs))

\* -- arithmetic on digit sequences
Zeros(n) == [i \in 1..n |-> 0]
Trim(a) ==
    LET nz == {i \in 1..Len(a) : a[i] # 0}
    IN  IF nz = {} THEN <<>>
        ELSE SubSeq(a, CHOOSE i \in nz : \A j \in nz : i <= j, Len(a))
RTrim(a) ==
    LET nz == {i \in 1..Len(a) : a[i] # 0}
    IN  IF nz = {} THEN <<>>
        ELSE SubSeq(a, 1, CHOOSE i \in nz : \A j \in nz : j <= i)
\* the digit of a at 10^p
Digit(a, p) == IF 0 <= p /\ p < Len(a) THEN a[Len(a) - p] ELSE 0
\* -1, 0, 1 as a is less than, equal to, greater than b
Cmp(a, b) ==
    IF Len(a) # Len(b) THEN (IF Len(a) < Len(b) THEN -1 ELSE 1)
    ELSE LET d == {i \in 1..Len(a) : a[i] # b[i]}
         IN  IF d = {} THEN 0
             ELSE LET i == CHOOSE k \in d : \A j \in d : k <= j
                  IN  IF a[i] < b[i] THEN -1 ELSE 1
RECURSIVE NatDigits(_)
NatDigits(n) == IF n = 0 THEN <<>> ELSE Append(NatDigits(n \div 10), n % 10)
\* The number whose digit sums are c (sum c[i] * 10^(Len(c) - i)): each
\* sum hands its tens to the place on its left until none exceeds 10; a
\* place then gets a carry of 1 when a 10 on its right reaches it through
\* 9s.
Handed(c) ==
    [j \in 1..(Len(c) + 1) |-> (IF j > 1 THEN c[j - 1] % 10 ELSE 0)
                               + (IF j <= Len(c) THEN c[j] \div 10 ELSE 0)]
CarryIn(c, i) ==
    IF \E j \in (i + 1)..Len(c) : c[j] = 10 /\ \A k \in (i + 1)..(j - 1) : c[k] = 9
    THEN 1 ELSE 0
RECURSIVE Carried(_)
Carried(c) ==
    IF \E i \in 1..Len(c) : c[i] > 10 THEN Carried(Handed(c))
    ELSE Trim([i \in 1..(Len(c) + 1) |->
                 ((IF i = 1 THEN 0 ELSE c[i - 1]) + CarryIn(c, i - 1)) % 10])
Add(a, b) ==
    LET n == IF Len(a) < Len(b) THEN Len(b) ELSE Len(a)
    IN  Carried([k \in 1..n |-> Digit(a, n - k) + Digit(b, n - k)])
\* a - b, for a >= b: a place borrows when a deficit on its right reaches
\* it through equal digits
Sub(a, b) ==
    LET n == Len(a)
        d == [k \in 1..n |-> a[k] - Digit(b, n - k)]
        borrow == [k \in 1..n |->
                     IF \E j \in (k + 1)..n : d[j] < 0 /\ \A i \in (k + 1)..(j - 1) : d[i] = 0
                     THEN 1 ELSE 0]
    IN  Trim([k \in 1..n |-> (d[k] - borrow[k] + 10) % 10])
\* the sum of a[i] * b[k + 1 - i] for i in lo..hi
RECURSIVE Conv(_, _, _, _, _)
Conv(a, b, k, lo, hi) ==
    IF lo > hi THEN 0
    ELSE IF lo = hi THEN a[lo] * b[k + 1 - lo]
    ELSE Conv(a, b, k, lo, (lo + hi) \div 2) + Conv(a, b, k, (lo + hi) \div 2 + 1, hi)
Mul(a, b) ==
    IF a = <<>> \/ b = <<>> THEN <<>>
    ELSE Carried([k \in 1..(Len(a) + Len(b) - 1) |->
                    Conv(a, b, k, IF k > Len(b) THEN k + 1 - Len(b) ELSE 1,
                                  IF k < Len(a) THEN k ELSE Len(a))])
\* b^n, by squaring
Square(a) == Mul(a, a)
RECURSIVE Pow(_, _)
Pow(b, n) ==
    IF n = 0 THEN <<1>>
    ELSE IF n % 2 = 0 THEN Square(Pow(b, n \div 2))
    ELSE Mul(Square(Pow(b, n \div 2)), b)
\* quotient and remainder of n by m, for a quotient below 10^17: long
\* division over the last 17 digits of n
QuotientDigit(r, m) ==
    CHOOSE k \in 0..9 : /\ Cmp(Mul(m, NatDigits(k)), r) <= 0
                        /\ Cmp(Mul(m, NatDigits(k + 1)), r) > 0
Taken(q, r, m, c) == [q |-> Trim(Append(q, c)), r |-> Sub(r, Mul(m, NatDigits(c)))]
BroughtDown(q, r, m) == Taken(q, r, m, QuotientDigit(r, m))
RECURSIVE DivUpTo(_, _, _)
DivStep(n, m, i, p) == BroughtDown(p.q, Trim(Append(p.r, n[i])), m)
DivUpTo(n, m, i) ==
    IF i = 0 \/ i + 17 <= Len(n) THEN [q |-> <<>>, r |-> Trim(SubSeq(n, 1, i))]
    ELSE CHOOSE qr \in {DivStep(n, m, i, p) : p \in {DivUpTo(n, m, i - 1)}} : TRUE
DivMod(n, m) == IF m = <<>> THEN [q |-> <<>>, r |-> <<>>] ELSE DivUpTo(n, m, Len(n))

\* -- the double nearest to a decimal (IEEE 754 binary64, round half to even)
\* A finite double is m * 2^e with 2^52 <= m < 2^53, or m < 2^52 and
\* e = MinExp (subnormal, zero).
Two52 == <<4, 5, 0, 3, 5, 9, 9, 6, 2, 7, 3, 7, 0, 4, 9, 6>>
Two53 == <<9, 0, 0, 7, 1, 9, 9, 2, 5, 4, 7, 4, 0, 9, 9, 2>>
MinExp == -1074
MaxExp == 971
Double(m, e) == [inf |-> FALSE, m |-> m, e |-> IF m = <<>> THEN 0 ELSE e]
Infinity == [inf |-> TRUE, m |-> <<>>, e |-> 0]
\* n / (m * 2^e) as a fraction of natural numbers: its numerator and
\* its denominator
ScaledN(n, e) == IF e >= 0 THEN n ELSE Mul(n, Pow(<<2>>, -e))
ScaledM(m, e) == IF e >= 0 THEN Mul(m, Pow(<<2>>, e)) ELSE m
Largest(S, least) == IF S = {} THEN least ELSE CHOOSE e \in S : \A f \in S : f <= e
\* The binary exponent of n / m: the largest e with n / m >= 2^52 * 2^e,
\* found among the exponents that the numbers of digits leave possible
\* (log2(10) is between 3.321 and 3.322), and not less than MinExp.
FitsFrom(len) == ((len - 1) * 3321) \div 1000 - 54
FitsTo(len) == ((len + 1) * 3322) \div 1000 - 51
BinaryExponent(n, m) ==
    Largest({e \in FitsFrom(Len(n) - Len(m))..FitsTo(Len(n) - Len(m)) :
                /\ e >= MinExp
                /\ Cmp(ScaledN(n, e), Mul(ScaledM(m, e), Two52)) >= 0},
            MinExp)
\* round half to even: the quotient q of a division by m that left r
IsOdd(q) == q # <<>> /\ q[Len(q)] % 2 = 1
RoundsUp(q, half) == half > 0 \/ (half = 0 /\ IsOdd(q))
Rounded(qr, m) ==
    IF RoundsUp(qr.q, Cmp(Mul(qr.r, <<2>>), m)) THEN Add(qr.q, <<1>>) ELSE qr.q
Normal(q, e) ==
    IF q = Two53 THEN (IF e + 1 > MaxExp THEN Infinity ELSE Double(Two52, e + 1))
    ELSE IF e > MaxExp THEN Infinity
    ELSE Double(q, e)
DoubleAt(n, m, e) ==
    Normal(Rounded(DivMod(ScaledN(n, e), ScaledM(m, e)), ScaledM(m, e)), e)
\* the double nearest to n / m
NearestDouble(n, m) ==
    CHOOSE dbl \in {DoubleAt(n, m, e) : e \in {BinaryExponent(n, m)}} : TRUE
\* the double nearest to d * 10^e10, d > 0
ToDouble(d, e10) ==
    NearestDouble(d \o Zeros(IF e10 > 0 THEN e10 ELSE 0),
                  <<1>> \o Zeros(IF e10 < 0 THEN -e10 ELSE 0))
\* A decimal is 0.ds * 10^pt, with first and last digit of ds not 0.
Decimal(digits, pt) ==
    [ds |-> RTrim(Trim(digits)), pt |-> pt - (Len(digits) - Len(Trim(digits)))]
\* the natural number x * 10^e10 as a decimal
Shifted(x, e10) == Decimal(x, Len(x) + e10)
\* m * 2^e as a decimal, for a natural number m > 0
Expand(m, e) ==
    IF e >= 0 THEN Shifted(Mul(m, Pow(<<2>>, e)), 0)
    ELSE Shifted(Mul(m, Pow(<<5>>, -e)), e)
\* -1, 0, 1 as decimal a is less than, equal to, greater than decimal b
CmpDecimal(a, b) ==
    IF a.pt # b.pt THEN (IF a.pt < b.pt THEN -1 ELSE 1)
    ELSE LET n == IF Len(a.ds) < Len(b.ds) THEN Len(b.ds) ELSE Len(a.ds)
         IN  Cmp(a.ds \o Zeros(n - Len(a.ds)), b.ds \o Zeros(n - Len(b.ds)))
\* the decimals that round to the double m * 2^e lie between Below and
\* Above: half-way to the neighbouring doubles (the one below is half as
\* far when m is 2^52), the bounds included when m is even
Below(m, e) ==
    IF m = Two52 /\ e > MinExp THEN Expand(Sub(Mul(m, <<4>>), <<1>>), e - 2)
    ELSE Expand(Sub(Mul(m, <<2>>), <<1>>), e - 1)
Above(m, e) == Expand(Add(Mul(m, <<2>>), <<1>>), e - 1)
\* the decimal of n digits at or below decimal x, and the next one
Floor(x, n) == Decimal(SubSeq(x.ds \o Zeros(n), 1, n), x.pt)
Next10(ds, pt, n) == Decimal(ds, pt + Len(ds) - n)
Ceil(x, n) == Next10(Add(SubSeq(x.ds \o Zeros(n), 1, n), <<1>>), x.pt, n)
MaxReprDigits == 17
Inside(c, even) == c > 0 \/ (even /\ c = 0)
FloorRounds(x, n, below, even) ==
    n >= Len(x.ds) \/ Inside(CmpDecimal(Floor(x, n), below), even)
CeilRounds(x, n, above, even) ==
    n < Len(x.ds) /\ Inside(CmpDecimal(above, Ceil(x, n)), even)
Least(S) == CHOOSE k \in S : \A j \in S : k <= j
\* the digits after the first n of x are less than half a unit of the n-th
\* (-1), half a unit (0), more (1)
HalfSide(rest) == Cmp(Trim(Mul(rest, <<2>>)), <<1>> \o Zeros(Len(rest)))
FloorNearer(side, digit) == side < 0 \/ (side = 0 /\ digit % 2 = 0)
Nearer(x, n, below, above, even) ==
    IF /\ FloorRounds(x, n, below, even)
       /\ \/ ~CeilRounds(x, n, above, even)
          \/ FloorNearer(HalfSide(SubSeq(x.ds, n + 1, Len(x.ds))), x.ds[n])
    THEN Floor(x, n)
    ELSE Ceil(x, n)
Shortest(x, below, above, even) ==
    Nearer(x, Least({n \in 1..MaxReprDigits :
                        FloorRounds(x, n, below, even) \/ CeilRounds(x, n, above, even)}),
           below, above, even)
\* repr of a finite double other than zero: the shortest decimal that
\* rounds to it and, of the two of that length next to it, the nearer one
Repr(m, e) == Shortest(Expand(m, e), Below(m, e), Above(m, e), m[Len(m)] % 2 = 0)
\* decimals of at most 15 digits are told apart by the doubles nearest to
\* them (DBL_DIG), unless too near the ends of the range: such a decimal is
\* the shortest that rounds to its double
ExactDigits == 15
ExactRange == 290
FloatOf(neg, dec) == PyFloat(neg, dec.ds, dec.pt)
FromDouble(neg, dbl) ==
    IF dbl.inf THEN PyInf(neg)
    ELSE IF dbl.m = <<>> THEN PyFloat(neg, <<>>, 0)
    ELSE FloatOf(neg, Repr(dbl.m, dbl.e))
Rounding(neg, d, e10, dec) ==
    IF Len(dec.ds) <= ExactDigits /\ dec.pt >= -ExactRange /\ dec.pt <= ExactRange
    THEN FloatOf(neg, dec)
    ELSE IF dec.pt < -330 THEN PyFloat(neg, <<>>, 0)
    ELSE IF dec.pt > 310 THEN PyInf(neg)
    ELSE FromDouble(neg, ToDouble(d, e10))
\* the float of the decimal d * 10^e10, d > 0; beyond the range of the
\* doubles it is an infinity or zero
FromDecimal(neg, d, e10) == Rounding(neg, d, e10, Decimal(d, Len(d) + e10))

\* -- float(text), str(float), int(float)
Unsigned(cs) == IF cs # <<>> /\ cs[1] \in {"-", "+"} THEN Tail(cs) ELSE cs
AllDigits(cs) == \A i \in 1..Len(cs) : IsDigit(cs[i])
DigitVals(cs) == [i \in 1..Len(cs) |-> DigitVal(cs[i])]
\* the value of an exponent; one of more than six digits is beyond every
\* range all the same
RECURSIVE IntOf(_)
IntOf(ds) == IF ds = <<>> THEN 0 ELSE 10 * IntOf(SubSeq(ds, 1, Len(ds) - 1)) + ds[Len(ds)]
Exponent(ds) == IF Len(Trim(ds)) > 6 THEN 999999 ELSE IntOf(Trim(ds))
InfWords == { <<"i", "n", "f">>, <<"i", "n", "f", "i", "n", "i", "t", "y">> }
NaNWord == <<"n", "a", "n">>
\* the place of the first c in cs, Len(cs) + 1 when there is none
Find(cs, c) ==
    IF \E i \in 1..Len(cs) : cs[i] = c
    THEN CHOOSE i \in 1..Len(cs) : cs[i] = c /\ \A j \in 1..(i - 1) : cs[j] # c
    ELSE Len(cs) + 1
Before(cs, i) == SubSeq(cs, 1, i - 1)
After(cs, i) == SubSeq(cs, i + 1, Len(cs))
\* What float(text) reads: surrounding whitespace and letter case are
\* ignored; a sign, then inf, infinity, nan, or digits with at most one
\* point and an exponent (e, a sign, digits); an underscore may stand
\* between two digits.
Fields(neg, b, ip, fp, ex, has_exp) ==
    [ neg |-> neg,
      word |-> b,
      number |-> /\ \A i \in 1..Len(b) :
                      b[i] = "_" => /\ 1 < i /\ i < Len(b)
                                    /\ IsDigit(b[i - 1]) /\ IsDigit(b[i + 1])
                 /\ AllDigits(ip) /\ AllDigits(fp) /\ ip \o fp # <<>>
                 /\ has_exp => (Unsigned(ex) # <<>> /\ AllDigits(Unsigned(ex))),
      digits |-> ip \o fp,
      places |-> Len(fp),
      exneg |-> ex # <<>> /\ ex[1] = "-",
      exp |-> Unsigned(ex) ]
Mantissa(neg, b, mant, ex, has_exp) ==
    Fields(neg, b, Before(mant, Find(mant, ".")), After(mant, Find(mant, ".")), ex, has_exp)
Number(neg, b, u) ==
    Mantissa(neg, b, Before(u, Find(u, "e")), After(u, Find(u, "e")), Find(u, "e") <= Len(u))
Body(neg, b) == Number(neg, b, SelectSeq(b, LAMBDA c : c # "_"))
Stripped(t) == Body(t # <<>> /\ t[1] = "-", Unsigned(t))
FloatText(cs) == Stripped(lower(strip(cs)))
\* float(text) succeeds
Succeeds(p) == p.word \in InfWords \/ p.word = NaNWord \/ p.number
IsFloatText(cs) == Succeeds(FloatText(cs))
Parsed(p, e) ==
    IF p.word \in InfWords THEN PyInf(p.neg)
    ELSE IF p.word = NaNWord THEN PyNaN
    ELSE IF Trim(DigitVals(p.digits)) = <<>> THEN PyFloat(p.neg, <<>>, 0)
    ELSE FromDecimal(p.neg, Trim(DigitVals(p.digits)),
                     (IF p.exneg THEN -e ELSE e) - p.places)
FloatOfText(p) == Parsed(p, Exponent(DigitVals(p.exp)))
\* float(text)
float(cs) == FloatOfText(FloatText(cs))

\* float.is_integer(), and v == int(v) of a number that is finite
is_integer(v) == v.kind = "fin" /\ v.pt >= Len(v.ds)
\* int(v) of a whole number: the digits of the double itself
Whole(x) == x.ds \o Zeros(x.pt - Len(x.ds))
WholeOf(dbl) == Whole(Expand(dbl.m, dbl.e))
int(v) ==
    IF ~v.float \/ v.pt <= ExactDigits THEN Whole(v)
    ELSE WholeOf(ToDouble(v.ds, v.pt - Len(v.ds)))
DigitChars(ds) == [i \in 1..Len(ds) |-> Digits[ds[i] + 1]]
Chars(ds) == IF ds = <<>> THEN <<"0">> ELSE DigitChars(ds)
Signed(neg, ds) == (IF neg /\ ds # <<>> THEN <<"-">> ELSE <<>>) \o Chars(ds)
\* str(int(v))
str_int(v) == Signed(v.neg, int(v))
\* str(v) of a float: repr, with an exponent when the point is more than 16
\* digits to the right or more than 4 to the left of the first digit
str_float(v) ==
    LET n == Len(v.ds)
        e == v.pt - 1
        ex == NatDigits(IF e < 0 THEN -e ELSE e)
    IN  CASE v.kind = "nan" -> <<"n", "a", "n">>
          [] v.kind = "inf" -> (IF v.neg THEN <<"-">> ELSE <<>>) \o <<"i", "n", "f">>
          [] OTHER ->
               (IF v.neg THEN <<"-">> ELSE <<>>) \o
               (IF n = 0 THEN <<"0", ".", "0">>
                ELSE IF v.pt > 16 \/ v.pt < -3
                THEN <<Digits[v.ds[1] + 1]>>
                     \o (IF n > 1 THEN <<".">> \o DigitChars(Tail(v.ds)) ELSE <<>>)
                     \o <<"e", IF e < 0 THEN "-" ELSE "+">>
                     \o (IF Len(ex) < 2 THEN <<"0">> ELSE <<>>) \o DigitChars(ex)
                ELSE IF v.pt <= 0
                THEN <<"0", ".">> \o DigitChars(Zeros(-v.pt) \o v.ds)
                ELSE IF v.pt >= n
                THEN DigitChars(v.ds \o Zeros(v.pt - n)) \o <<".", "0">>
                ELSE DigitChars(SubSeq(v.ds, 1, v.pt)) \o <<".">>
                     \o DigitChars(SubSeq(v.ds, v.pt + 1, n)))
\* str(v) of a cell value
str(v) ==
    CASE v.t = "str" -> v.s
      [] v.t = "num" -> IF v.float THEN str_float(v) ELSE str_int(v)
      [] v.t = "none" -> <<"N", "o", "n", "e">>
\* lines 53-56 and 63: str(int(f)) if the number is whole, else str(f)
canonical(v) == IF is_integer(v) THEN str_int(v) ELSE str_float(v)

\* normalize_value (42-69); pd.isnull is true of None and of NaN, and
\* int(v) of an infinity (line 53) raises
normalize_value(v) ==
    IF v.t = "none" \/ (v.t = "num" /\ v.kind = "nan") \/ (v.t = "str" /\ v.s = <<>>)
    THEN PyNone
    ELSE IF v.t = "num" /\ v.kind = "inf" THEN PyRaise("OverflowError")
    ELSE LET val_str ==
                 IF v.t = "num" THEN canonical(v)
                 ELSE IF IsFloatText(strip(replace_breaks(v.s)))
                      THEN canonical(float(strip(replace_breaks(v.s))))
                      ELSE replace_breaks(v.s)
         IN  PyStr(strip(NFC(val_str)))

\* ---- process_field (mango/spoon.py 5-75) --------------------------------
MaxFieldParts == 4      \* pieces a cell given to process_field is made of

NoDelimiter == <<>>     \* delimiter=None
\* lines 25-28
prefixes ==
    { <<"p", "_">>, <<"w", "_">>, <<"e", "x", "_">>, <<"m", "_">>,
      <<"m", "_", "v", "o", "l", "_">>, <<"i", "_">>, <<"P", "O", "_">>,
      <<"P", "O", "_", "P", "A", "G", "_">>, <<"P", "A", "G", "_">>, <<"V", "O", "_">>,
      <<"e", "_">>, <<"a", "c", "_">>, <<"i", "n", "s", "t", "_">>, <<"l", "o", "c", "_">> }

\* the text `what` is in cs at position i
At(cs, i, what) ==
    /\ i + Len(what) - 1 <= Len(cs)
    /\ SubSeq(cs, i, i + Len(what) - 1) = what
\* the position after the whitespace that starts at i
RECURSIVE SkipSpaces(_, _)
SkipSpaces(cs, i) == IF i <= Len(cs) /\ IsSpace(cs[i]) THEN SkipSpaces(cs, i + 1) ELSE i

\* re.split(smart_split_regex, cs), line 57: the scan of the regex
\* delimiter \s* (?=prefix) from position i, the current part starting at from
RECURSIVE SmartSplit(_, _, _, _)
SmartSplit(cs, delimiter, i, from) ==
    IF i > Len(cs) THEN << SubSeq(cs, from, Len(cs)) >>
    ELSE LET after == SkipSpaces(cs, i + Len(delimiter))
         IN  IF At(cs, i, delimiter) /\ \E q \in prefixes : At(cs, after, q)
             THEN << SubSeq(cs, from, i - 1) >> \o SmartSplit(cs, delimiter, after, after)
             ELSE SmartSplit(cs, delimiter, i + 1, from)

\* cs.split(delimiter), line 61
RECURSIVE Split(_, _, _, _)
Split(cs, delimiter, i, from) ==
    IF i > Len(cs) THEN << SubSeq(cs, from, Len(cs)) >>
    ELSE IF At(cs, i, delimiter)
         THEN << SubSeq(cs, from, i - 1) >>
                  \o Split(cs, delimiter, i + Len(delimiter), i + Len(delimiter))
         ELSE Split(cs, delimiter, i + 1, from)

\* lines 47-51
is_id_string(clean_item) == \E q \in prefixes : StartsWith(clean_item, q)

\* (mutation of process_field: every item is split at every delimiter)
process_field_SplitAll(field, delimiter) ==
    IF delimiter = NoDelimiter THEN {str(field)}
    ELSE LET clean_item == strip(str(field))
         IN  {strip(part) : part \in Range(Split(clean_item, delimiter, 1, 1))} \ {<<>>}

\* process_field(field, delimiter) for a cell value `field` that is not a
\* list, with lower=False as in all calls: the items of the array returned
\* (their order is the iteration order of a set of str)
process_field(field, delimiter) ==
    IF delimiter = NoDelimiter THEN {str(field)}
    ELSE LET clean_item == strip(str(field))
             parts == IF is_id_string(clean_item)
                      THEN SmartSplit(clean_item, delimiter, 1, 1)
                      ELSE Split(clean_item, delimiter, 1, 1)
         IN  {strip(part) : part \in Range(parts)} \ {<<>>}

\* ---- collect_mapped_entities (__main__.py 112-145) ----------------------
MaxRows == 2            \* rows of the data frame
MaxTuples == 3          \* relation tuples collected from the rows
MaxRecords == 2         \* entity records one collection pass returns

\* the tables of the recipe: the static columns in the order of the
\* [mapping] table, the sibling property columns and the field they fill,
\* the delimiter of the delimited columns
column2type == { << <<"PLACE">>, "place" >>, << <<"AUTHOR", "WORK", "ID">>, "person" >> }
column_order == << <<"PLACE">>, <<"AUTHOR", "WORK", "ID">> >>
properties == { << <<"PLACE">>, { << <<"COUNTRY">>, "country" >> } >> }
delimited_fields == { << <<"PLACE">>, <<";">> >> }
PropertiesOf(column_name) == GetOr(properties, column_name, {})

\* bool(value): neither None, nor "", nor zero
Truthy(v) == \/ v.t = "str" /\ v.s # <<>>
             \/ v.t = "num" /\ ~(v.kind = "fin" /\ v.ds = <<>>)
\* pd.isnull
IsNull(v) == v.t = "none" \/ (v.t = "num" /\ v.kind = "nan")

\* data[[column_name] + properties].drop_duplicates().to_dict('records')
Project(row, column_name) ==
    [c \in {column_name} \cup {pr[1] : pr \in PropertiesOf(column_name)} |-> row[c]]
RECURSIVE DropDuplicates(_, _, _)
DropDuplicates(rows, column_name, i) ==
    IF i > Len(rows) THEN <<>>
    ELSE IF \E j \in 1..(i - 1) : Project(rows[j], column_name) = Project(rows[i], column_name)
         THEN DropDuplicates(rows, column_name, i + 1)
         ELSE << Project(rows[i], column_name) >> \o DropDuplicates(rows, column_name, i + 1)

\* lines 137-143: the dict with the new entities of a record added, or the
\* exception of normalize_value(value) (line 139), raised when the params
\* of the first new entity of the record are built
Added(entities, entity_type, names, params) ==
    IF names # {} /\ \E p \in params : p[2].t = "raise"
    THEN Raised((CHOOSE p \in params : p[2].t = "raise")[2].exc)
    ELSE Done(entities \cup
              {[type |-> entity_type, name |-> n.s, params |-> params] : n \in names})

\* lines 124-143 for one record
RecordEntities(entities, column_name, record) ==
    LET entity_type == Get(column2type, column_name)
        item == record[column_name]
        names == IF IsNull(item) THEN {}
                 ELSE {normalize_value(PyStr(single_item)) :
                          single_item \in process_field(item,
                                             GetOr(delimited_fields, column_name, NoDelimiter))}
        params == { <<pr[2], normalize_value(record[pr[1]])>> :
                      pr \in {q \in PropertiesOf(column_name) :
                                 Truthy(record[q[1]]) /\ ~IsNull(record[q[1]])} }
    IN  Added(entities, entity_type,
              {x \in names : x.t = "str" /\ x.s # <<>>
                                /\ ~\E e \in entities : e.type = entity_type /\ e.name = x.s},
              params)

\* the loop over the records of a column; an exception ends it
RECURSIVE CollectRecords(_, _, _, _)
NextRecord(record, column_name, records, i) ==
    IF record.state = "raised" THEN record
    ELSE CollectRecords(record.v, column_name, records, i)
CollectRecords(entities, column_name, records, i) ==
    IF i > Len(records) THEN Done(entities)
    ELSE NextRecord(RecordEntities(entities, column_name, records[i]),
                    column_name, records, i + 1)

\* the loop over column2type; an exception ends it
RECURSIVE CollectColumns(_, _, _)
NextColumn(column, data, k) ==
    IF column.state = "raised" THEN column ELSE CollectColumns(column.v, data, k)
CollectColumns(entities, data, k) ==
    IF k > Len(column_order) THEN Done(entities)
    ELSE IF column_order[k] \notin data.columns THEN CollectColumns(entities, data, k + 1)
    ELSE NextColumn(CollectRecords(entities, column_order[k],
                                   DropDuplicates(data.rows, column_order[k], 1), 1),
                    data, k + 1)

\* collect_mapped_entities(data): the values of the dict it returns, or the
\* exception that leaves it
collect_mapped_entities(data) == CollectColumns({}, data, 1)

\* ---- the arguments the functions are applied to -------------------------

\* cache files
CacheFiles ==
    {NoFile, Truncated, Undecodable, NotAnObject}
    \cup {json_dump(d) : d \in SUBSET { << <<"concept", "carol">>, Str(Id("ent", 1)) >>,
                                        << <<"motif", "carol">>,   Str(Id("ent", 2)) >> }}

Columns == { <<"PLACE">>, <<"AUTHOR", "WORK", "ID">>, <<"TITLE">>,
             <<"WORK", "MENTIONED", "BY">>, <<"MENTIONING">> }
PrefixPieces ==
    { <<"m", "_">>, <<"M", "_">>, <<"v", "o", "l", "_">>, <<"p", "_">>, <<"P", "O", "_">>,
      <<"p", "o", "_">>, <<"P", "A", "G", "_">>, <<"e", "_">>, <<"e", "x", "_">>, <<"7">> }

\* cell values: None, ints and floats, every str of a few characters and
\* some longer ones
ValueChars == {" ", "\n", "0", "3", "5", ".", "-", "e", "_", "a", "^", "a^"}
\* 3, 30, 0; 0.0, 0.5, 3.0, 3.5, 30.0, 30.5, 5e-05, 1e+16, 1e+23, inf, nan
Numbers ==
    {PyInt(neg, ds) : neg \in BOOLEAN, ds \in {<<3>>, <<3, 0>>}}
    \cup {PyInt(FALSE, <<>>), PyInf(FALSE), PyInf(TRUE), PyNaN}
    \cup {PyFloat(neg, d[1], d[2]) :
              neg \in BOOLEAN,
              d \in { << <<>>, 0 >>, << <<5>>, 0 >>, << <<3>>, 1 >>, << <<3, 5>>, 1 >>,
                      << <<3>>, 2 >>, << <<3, 0, 5>>, 2 >>, << <<5>>, -4 >>,
                      << <<1>>, 17 >>, << <<1>>, 24 >> }}
LongValues ==
    { <<"i", "n", "f">>, <<"-", "I", "n", "f", "i", "n", "i", "t", "y">>, <<"N", "a", "N">>,
      <<"0", ".", "0", "0", "0", "0", "5">>, <<"3", "_", "0", "e", "-", "5">>,
      <<"1", "e", "1", "6">>, <<"1", "e", "2", "3">>, <<"1", "e", "3", "0", "9">>,
      <<"3", "3", "3", "3", "3", "3", "3", "3", "3", "3",
        "3", "3", "3", "3", "3", "3", "3", "3", "3">>,
      <<"0", ".", "3", "0", "0", "0", "0", "0", "0", "0", "0", "0",
        "0", "0", "0", "0", "0", "0", "0", "4">> }
RawValues ==
    {PyNone} \cup Numbers
    \cup {PyStr(cs) : cs \in Words({<<c>> : c \in ValueChars}, MaxValueLen) \cup LongValues}

\* cells of a delimited column
FieldPieces ==
    { <<"m", "_", "v", "o", "l", "_", "1">>, <<"p", "_", "2">>, <<"m", "i", "l", "k">>,
      <<"b", "r", "e", "a", "d">>, <<";">>, <<" ">>, <<";", "2">> }

\* data frames: the spellings of a name, alone or joined by the delimiter
AllColumns == { <<"PLACE">>, <<"COUNTRY">>, <<"AUTHOR", "WORK", "ID">> }
Spellings == { <<"a">>, <<"A">>, <<"a^">>, <<"a", "^">>, <<"a", ";", "A">> }
Rows ==
    {r \in [AllColumns -> {PyNone} \cup {PyStr(x) : x \in Spellings}] :
        /\ r[<<"COUNTRY">>] \in {PyNone, PyStr(<<"a">>)}
        /\ r[<<"AUTHOR", "WORK", "ID">>] \in {PyNone, PyStr(<<"A">>)}}
    \cup
    \* the same place with another sibling property: a str, the number 0,
    \* an infinity, NaN
    {[c \in AllColumns |->
         CASE c = <<"PLACE">> -> PyStr(place)
           [] c = <<"COUNTRY">> -> country
           [] OTHER -> PyNone] :
       place \in {<<"a">>, <<"a", ";", "A">>},
       country \in {PyStr(<<"A">>), PyInt(FALSE, <<>>), PyInf(FALSE), PyNaN}}
RECURSIVE SeqsUpTo(_, _)
SeqsUpTo(S, n) ==
    IF n = 0 THEN {<<>>}
    ELSE LET shorter == SeqsUpTo(S, n - 1)
         IN  shorter \cup {Append(q, x) : q \in shorter, x \in S}
DataFrames == {[columns |-> AllColumns, rows |-> rows] : rows \in SeqsUpTo(Rows, MaxRows)}

\* relations_to_create: relation tuples in the order the rows gave them
RelationTuples ==
    { <<name, src, "concept", Id("ent", id1), Id("ent", 1)>> :
        name \in {"cites", "wrote"}, src \in {"concept", "motif"}, id1 \in {1, 2} }

\* what the two passes return: records with distinct keys, those of the
\* dynamic pass with empty params (line 171)
EntityKeys == {<<type, name>> : type \in {"person", "work"}, name \in {"alice", "carol"}}
MappedRecords == {Ent(k[1], k[2], ps) : k \in EntityKeys, ps \in {NoParams, WithDate("1900")}}
DynamicRecords == {Ent(k[1], k[2], NoParams) : k \in EntityKeys}
DictValues(records) ==
    {q \in SeqsUpTo(records, MaxRecords) :
        \A i, j \in 1..Len(q) : EKey(q[i]) = EKey(q[j]) => i = j}

Call(fn, x) == [fn |-> fn, x |-> x]
Calls_all_entities ==
    {Call("all_entities", <<d, m>>) :
        d \in DictValues(DynamicRecords), m \in DictValues(MappedRecords)}
Calls_unique_relations ==
    {Call("unique_relations", q) : q \in SeqsUpTo(RelationTuples, MaxTuples)}
Calls_process_field ==
    {Call("process_field", <<PyStr(w), d>>) :
        w \in Words(FieldPieces, MaxFieldParts), d \in {NoDelimiter, <<";">>}}
Calls_collect_mapped_entities == {Call("collect_mapped_entities", d) : d \in DataFrames}
Calls_normalize_value == {Call("normalize_value", v) : v \in RawValues}
Calls_load_json_cache == {Call("load_json_cache", f) : f \in CacheFiles}
Calls_get_dynamic_entity_type ==
    {Call("get_dynamic_entity_type", <<c, v>>) :
        c \in Columns, v \in Words(PrefixPieces, MaxPrefixParts)}

F_load_json_cache ==
    /\ fn_arg.fn = "load_json_cache"
    /\ fn_res = Pending
    /\ fn_res' = Done(load_json_cache(fn_arg.x))
    /\ UNCHANGED <<store_vars, mg_vars, task_vars, drv_vars, main_vars, faults, loop_vars, fn_arg>>

F_get_dynamic_entity_type ==
    /\ fn_arg.fn = "get_dynamic_entity_type"
    /\ fn_res = Pending
    /\ fn_res' = Done(get_dynamic_entity_type(fn_arg.x[1], fn_arg.x[2], column2type))
    /\ UNCHANGED <<store_vars, mg_vars, task_vars, drv_vars, main_vars, faults, loop_vars, fn_arg>>

F_normalize_value ==
    /\ fn_arg.fn = "normalize_value"
    /\ fn_res = Pending
    /\ fn_res' = Ended(normalize_value(fn_arg.x))
    /\ UNCHANGED <<store_vars, mg_vars, task_vars, drv_vars, main_vars, faults, loop_vars, fn_arg>>

F_process_field ==
    /\ fn_arg.fn = "process_field"
    /\ fn_res = Pending
    /\ fn_res' = Done(process_field(fn_arg.x[1], fn_arg.x[2]))
    /\ UNCHANGED <<store_vars, mg_vars, task_vars, drv_vars, main_vars, faults, loop_vars, fn_arg>>

F_collect_mapped_entities ==
    /\ fn_arg.fn = "collect_mapped_entities"
    /\ fn_res = Pending
    /\ fn_res' = collect_mapped_entities(fn_arg.x)
    /\ UNCHANGED <<store_vars, mg_vars, task_vars, drv_vars, main_vars, faults, loop_vars, fn_arg>>

F_unique_relations ==
    /\ fn_arg.fn = "unique_relations"
    /\ fn_res = Pending
    /\ \E q \in unique_relations(fn_arg.x) : fn_res' = Done(q)
    /\ UNCHANGED <<store_vars, mg_vars, task_vars, drv_vars, main_vars, faults, loop_vars, fn_arg>>

F_all_entities ==
    /\ fn_arg.fn = "all_entities"
    /\ fn_res = Pending
    /\ fn_res' = Done(all_entities(fn_arg.x[1], fn_arg.x[2]))
    /\ UNCHANGED <<store_vars, mg_vars, task_vars, drv_vars, main_vars, faults, loop_vars, fn_arg>>

InitFn ==
    /\ InitStore
    /\ audit_budget = 0
    /\ faults = 0
    /\ username = "alice"
    /\ Constructed
    /\ etasks = <<>>
    /\ rtasks = <<>>
    /\ ltasks = LoadersPending
    /\ late = <<>>
    /\ mpc = "new"
    /\ populated = FALSE
    /\ calls = 0
    /\ returned = {}
    /\ MainIdle
    /\ fn_arg \in Calls_load_json_cache \cup Calls_get_dynamic_entity_type
                  \cup Calls_normalize_value \cup Calls_process_field
                  \cup Calls_collect_mapped_entities \cup Calls_unique_relations
                  \cup Calls_all_entities
    /\ fn_res = Pending

NextFn ==
    \/ F_load_json_cache
    \/ F_get_dynamic_entity_type
    \/ F_normalize_value
    \/ F_process_field
    \/ F_collect_mapped_entities
    \/ F_unique_relations
    \/ F_all_entities

SpecFn == InitFn /\ [][NextFn]_vars

-----------------------------------------------------------------------------
(* Claims about merge_relation under concurrent fan-out (SpecMR).          *)

RTasks == 1..Len(rtasks)
\* the call has left the critical section with a relation-type id
HasRelType(t) == rtasks[t].pc \in {"load_rel", "rel_ins", "rel_aud", "done"}
                 /\ rtasks[t].relation_type_id # None
MissingType(t) == FindType(rtasks[t].src_type) = None \/ FindType(rtasks[t].trg_type) = None

\* C1: when N concurrent merge_relation calls ask for the same relation-type
\* key that the (fetched) relation-type cache does not hold, the relationtypes
\* collection gets exactly one record for that key, and every call that has
\* left the critical section uses the id of that record.
C1_OneRelationTypePerKey ==
    populated =>
      /\ \A i, j \in 1..Len(db_relationtypes) :
            RelTypeKey(db_relationtypes[i]) = RelTypeKey(db_relationtypes[j]) => i = j
      /\ \A t \in RTasks : HasRelType(t) =>
            /\ rtasks[t].relation_type_id[2] \in 1..Len(db_relationtypes)
            /\ RelTypeKey(db_relationtypes[rtasks[t].relation_type_id[2]])
                  = rtasks[t].rel_type_key
      /\ \A t, u \in RTasks :
            (HasRelType(t) /\ HasRelType(u)
               /\ rtasks[t].rel_type_key = rtasks[u].rel_type_key)
            => rtasks[t].relation_type_id = rtasks[u].relation_type_id

\* three calls for one unseen key have all finished; one of them inserted
C1_Witness ==
    /\ populated
    /\ Len(rtasks) = 3
    /\ \A t \in RTasks : rtasks[t].pc = "done" /\ rtasks[t].rel_type_key = rtasks[1].rel_type_key
                         /\ rtasks[t].rel_type_key # <<>>
    /\ Cardinality({t \in RTasks : rtasks[t].new_rt}) = 1
    /\ Len(db_relationtypes) = 1

\* C2 (as claimed): under any concurrent fan-out, several calls with the same
\* id1, id2 and relation type included, the relations collection never holds
\* two records with the same (entity1, entity2, relationType).
C2_OneRelationPerKey ==
    populated =>
      \A i, j \in 1..Len(db_relations) :
         RelDocKey(db_relations[i]) = RelDocKey(db_relations[j]) => i = j

\* C9: a merge_relation call whose source or target type has no type document
\* awaits the two lookups of lines 180 and 181 and then returns None, without
\* inserting anything and without touching the relation-type cache, the
\* relation cache or a lock.
C9_MissingTypeSkipped ==
    [][ \A t \in RTasks :
          (populated /\ MissingType(t) /\ merge_relation(t)) =>
             /\ rtasks'[t].pc \in {"src_find", "trg_find", "done"}
             /\ rtasks[t].pc = "trg_find" => rtasks'[t].pc = "done"
             /\ rtasks'[t].pc = "done" => rtasks'[t].ret = None
             /\ UNCHANGED <<db_relationtypes, db_relations, db_audits,
                            relation_types, relations, relation_type_locks>> ]_vars

\* such a call has returned while another call of the gather was inserting
C9_Witness ==
    /\ populated
    /\ \E t, u \in RTasks :
         /\ MissingType(t) /\ rtasks[t].pc = "done" /\ rtasks[t].ret = None
         /\ rtasks[u].new_rt /\ rtasks[u].pc = "rt_ins"

-----------------------------------------------------------------------------
(* Claims about repeated merge_entity calls (Spec, SpecME).                *)

ETasks == 1..Len(etasks)
SameCall(tk, h) ==
    /\ tk.display_name = h.display_name
    /\ tk.entity_name = h.entity_name
    /\ tk.params = h.params
\* the documents the query of a call matches
Hits(tk) ==
    {i \in 1..Len(db_entities) :
        Matches(db_entities[i], CollectionOf(tk.entity_type),
                FieldOf(Lower(tk.display_name)), tk.entity_name, tk.params)}

-----------------------------------------------------------------------------
(* Claims about runs of main() (Spec).                                     *)

Prev == hist[Len(hist)]

\* C4 (as claimed): when a run completes on the input, and for the operator,
\* of a completed run right before it, the entity collections, relationtypes
\* and relations are what that run left: the second run has inserted no
\* record.
C4_SecondRunInsertsNothing ==
    (mpc = "done" /\ Len(hist) > 0 /\ Prev.outcome = "done"
       /\ Prev.dataset = dataset /\ Prev.username = username)
    => /\ db_entities = Prev.db_entities
       /\ db_relationtypes = Prev.db_relationtypes
       /\ db_relations = Prev.db_relations

\* the input of run r
InputOf(r) == IF r = run.n THEN dataset ELSE hist[r].dataset
\* two documents of seq were inserted for the same thing by run r and by run r + 1
Reinserted(seq, r, Thing(_)) ==
    \E i, j \in 1..Len(seq) :
       /\ seq[i].by[1] = r
       /\ seq[j].by[1] = r + 1
       /\ Thing(seq[i]) = Thing(seq[j])
MadeFor(doc) == doc.by[2]

\* C5 (as claimed): when a run was killed and the next run has the same
\* input, the next run inserts no entity for an entity key, no relation type
\* for a relation-type key and no relation for an input relation for which the
\* killed run had inserted one.
C5_NoReinsertAfterKill ==
    \A r \in 1..Len(hist) :
        (hist[r].outcome = "crashed" /\ InputOf(r + 1) = hist[r].dataset) =>
            /\ ~Reinserted(db_entities, r, MadeFor)
            /\ ~Reinserted(db_relationtypes, r, RelTypeKey)
            /\ ~Reinserted(db_relations, r, MadeFor)

\* C6 (as claimed): after a sequence of completed runs, whatever params
\* their inputs gave the entities, no two entity records have the same type
\* and the same name.
C6_OneEntityPerTypeAndName ==
    (mpc = "done" /\ \A r \in 1..Len(hist) : hist[r].outcome = "done") =>
        \A i, j \in 1..Len(db_entities) :
            (db_entities[i].type = db_entities[j].type
               /\ db_entities[i].name = db_entities[j].name) => i = j

\* C7: once relation building has begun in a run, a merge_entity call has
\* completed for every entity of the input, no merge_entity call is in
\* flight, every id returned is in the entity cache under the key of its
\* entity, and entities.json has been rewritten in this run and holds it too.
C7_EntitiesBeforeRelations ==
    run.building =>
        /\ \A t \in 1..Len(etasks) : etasks[t].pc = "done"
        /\ run.ents_saved
        /\ entities_file.kind = "object"
        /\ \A k \in 1..Len(entities_to_process(dataset)) :
              \E res \in run.results :
                 /\ res[1] = EKey(entities_to_process(dataset)[k])
                 /\ res[2] # None =>
                       /\ Get(logged_entities, res[1]) = Str(res[2])
                       /\ Get(entities_file.d, res[1]) = Str(res[2])

\* relation merging is under way after two entity batches
C7_Witness ==
    /\ run.building
    /\ mpc = "rbatch"
    /\ Len(entities_to_process(dataset)) > BATCH_SIZE
    /\ \E res \in run.results : res[2] # None
    /\ \E t \in RTasks : rtasks[t].pc = "rel_ins"

\* C8: while the operator's username has no record in users, no step changes
\* a collection of the store, the audits or either cache file, and the only
\* thing the run does is to abort: with the ValueError of the lookup, or
\* before it with the exception of a store that fails the ping or the lookup
\* (or to be killed, or to be started again).
C8_UnknownOperatorAborts ==
    [][ FindUser(username) = None =>
          /\ UNCHANGED <<db_entities, db_relationtypes, db_relations, db_audits,
                         entities_file, relations_file>>
          /\ mpc \in {"new", "aborted", "failed", "crashed"}
          /\ mpc' \in {"new", "aborted", "failed", "crashed"}
          /\ authenticate => mpc' = "aborted" ]_vars

\* the run of an unknown operator has aborted
C8_Witness ==
    /\ FindUser(username) = None
    /\ mpc = "aborted"
    /\ db_entities = <<>> /\ db_audits = 0
    /\ entities_file = NoFile /\ relations_file = NoFile

\* the audit insert of call t fails in this step
AuditFails(tasks, tasks2, t) ==
    /\ t \in 1..Len(tasks) /\ t \in 1..Len(tasks2)
    /\ ~tasks[t].aud_failed /\ tasks2[t].aud_failed

\* what a finished call whose audit insert failed has returned and cached
C10_ReturnsTheRecord ==
    /\ \A t \in ETasks : etasks[t].aud_failed =>
          /\ etasks[t].pc = "done" =>
                /\ etasks[t].ret[1] = "ent"
                /\ etasks[t].ret[2] \in Hits(etasks[t])
                /\ etasks[t].new_doc => db_entities[etasks[t].ret[2]].by = etasks[t].origin
                /\ etasks[t].updated => etasks[t].ret = etasks[t].existing
    /\ \A t \in RTasks : rtasks[t].aud_failed =>
          /\ rtasks[t].pc = "done" =>
                LET tk == rtasks[t] IN
                /\ tk.ret[1] = "rel"
                /\ RelDocKey(db_relations[tk.ret[2]])
                      = RelKey(tk.entity1_id, tk.entity2_id, tk.relation_type_id)
                /\ tk.new_rt =>
                      /\ db_relationtypes[tk.relation_type_id[2]].by = tk.origin
                      /\ Get(relation_types.d, tk.rel_type_key) = tk.relation_type_id
                /\ tk.new_rel =>
                      /\ db_relations[tk.ret[2]].by = tk.origin
                      /\ Get(relations.d, RelKey(tk.entity1_id, tk.entity2_id,
                                                 tk.relation_type_id)) = tk.ret

\* C10: the failure of an audit insert raises nothing in the merge_entity or
\* merge_relation call that asked for it; when a call one of whose audit
\* inserts failed is done, it has returned the id of the record it found or
\* created, and a merge_relation call has put the ids of the relation type
\* and of the relation it inserted into the two caches.
C10_AuditFailureNotFatal ==
    /\ [][ /\ \A t \in ETasks : AuditFails(etasks, etasks', t) => etasks'[t].pc # "raised"
           /\ \A t \in RTasks : AuditFails(rtasks, rtasks', t) => rtasks'[t].pc # "raised"
         ]_vars
    /\ [] C10_ReturnsTheRecord

\* a merge_relation call has returned the relation it inserted although the
\* audit insert for its new relation type failed
C10_Witness ==
    \E t \in RTasks :
        /\ rtasks[t].pc = "done" /\ rtasks[t].aud_failed
        /\ rtasks[t].new_rt /\ rtasks[t].new_rel
        /\ Has(relation_types.d, rtasks[t].rel_type_key)
        /\ audit_budget = 0

-----------------------------------------------------------------------------
(* Claims about the functions applied on their own (SpecFn).               *)

Returned(fn) == fn_arg.fn = fn /\ fn_res.state = "returned"

\* C11 (as claimed): load_json_cache of a file that is missing, or that
\* exists but does not hold a JSON object (damaged or truncated text, bytes
\* that are not text, a JSON document of another shape), raises nothing and
\* returns an empty cache.
C11_BadCacheFileGivesEmptyCache ==
    (Returned("load_json_cache") /\ fn_arg.x.kind # "object") =>
        /\ ~fn_res.v.raised
        /\ fn_res.v.cache = {}

\* the prefix-table entries whose prefix starts the value, case-insensitively
PrefixHits(value) ==
    {i \in 1..Len(prefix_map) : StartsWith(lower(value), lower(prefix_map[i][1]))}
Longest(hits) ==
    CHOOSE i \in hits : \A j \in hits : Len(prefix_map[j][1]) <= Len(prefix_map[i][1])

\* C15: for a value of a dynamically-typed column that a prefix-table entry
\* starts, case-insensitively, get_dynamic_entity_type returns the entity
\* type of the longest such entry.
C15_LongestPrefixType ==
    (Returned("get_dynamic_entity_type") /\ IsDynamicColumn(fn_arg.x[1])
        /\ PrefixHits(fn_arg.x[2]) # {}) =>
        fn_res.v = prefix_map[Longest(PrefixHits(fn_arg.x[2]))][2]

\* "M_vol_7" in a column whose name ends with _MENTIONED_BY: the m_ and the
\* m_vol_ entries both start it, the type is the one of the m_vol_ entry
C15_Witness ==
    /\ Returned("get_dynamic_entity_type")
    /\ fn_arg.x = << <<"WORK", "MENTIONED", "BY">>,
                     <<"M", "_", "v", "o", "l", "_", "7">> >>
    /\ PrefixHits(fn_arg.x[2]) = {4, 5}
    /\ fn_res.v = "manifestation"
\* C16 (as claimed): for every raw value v, None, the empty str, a str of
\* whitespace only, a number, a str that parses as a number or any other str,
\* normalize_value(normalize_value(v)) = normalize_value(v).
C16_NormalizeIdempotent ==
    Returned("normalize_value") => normalize_value(fn_res.v) = fn_res.v

\* the occurrences of the delimiter at which the claim has the item split: in
\* an item that starts with a known prefix the ones followed, after optional
\* whitespace, by a known prefix, in any other item all of them
SplitPoints(item, delimiter) ==
    {i \in 1..Len(item) :
        /\ At(item, i, delimiter)
        /\ is_id_string(item) =>
              \E j \in (i + Len(delimiter))..Len(item) :
                 /\ \A k \in (i + Len(delimiter))..(j - 1) : IsSpace(item[k])
                 /\ \E q \in prefixes : At(item, j, q)}
\* the pieces between those occurrences, trimmed, the empty ones dropped
PiecesBetween(item, delimiter) ==
    LET points == SplitPoints(item, delimiter)
        starts == {1} \cup {i + Len(delimiter) : i \in points}
        EndOf(a) == IF \E i \in points : i >= a
                    THEN (CHOOSE i \in points : i >= a /\ \A j \in points : j >= a => i <= j) - 1
                    ELSE Len(item)
    IN  {strip(SubSeq(item, a, EndOf(a))) : a \in starts} \ {<<>>}

\* C14: process_field with a delimiter returns, for a cell, the trimmed
\* non-empty pieces obtained by splitting it (trimmed) at the occurrences of
\* the delimiter followed, after optional whitespace, by a known prefix when
\* it starts with a known prefix, and at every occurrence when it does not.
C14_SplitAtPrefixedDelimiters ==
    (Returned("process_field") /\ fn_arg.x[2] # NoDelimiter) =>
        fn_res.v = PiecesBetween(strip(str(fn_arg.x[1])), fn_arg.x[2])

\* "m_vol_1;2;p_2": the first delimiter is kept, the item is split at the second
C14_Witness ==
    /\ Returned("process_field")
    /\ fn_arg.x = << PyStr(<<"m", "_", "v", "o", "l", "_", "1", ";", "2", ";", "p", "_", "2">>),
                     <<";">> >>
    /\ fn_res.v = { <<"m", "_", "v", "o", "l", "_", "1", ";", "2">>, <<"p", "_", "2">> }

\* two spellings that differ only in letter case or in the encoding of an accent
Fold(cs) == lower(NFC(strip(cs)))
\* a cell that names one entity
NamesOne(v, column_name) ==
    /\ v.t = "str"
    /\ strip(v.s) # <<>>
    /\ \A i \in 1..Len(v.s) :
          ~At(v.s, i, GetOr(delimited_fields, column_name, <<";">>))

\* C17 (as claimed): when two rows name the same entity in the same typed
\* column by spellings that differ only in letter case or in accent encoding,
\* collect_mapped_entities returns exactly one record for that entity.
C17_OneRecordPerSpelling ==
    Returned("collect_mapped_entities") =>
        \A k \in 1..Len(column_order) :
        \A i, j \in 1..Len(fn_arg.x.rows) :
            LET c == column_order[k]
                v == fn_arg.x.rows[i][c]
                w == fn_arg.x.rows[j][c]
            IN  (i # j /\ NamesOne(v, c) /\ NamesOne(w, c) /\ Fold(v.s) = Fold(w.s)) =>
                    Cardinality({e \in fn_res.v :
                                    /\ e.type = Get(column2type, c)
                                    /\ Fold(e.name) = Fold(v.s)}) = 1

\* C13 (as claimed): the list handed to the merge phase holds every distinct
\* collected tuple exactly once, in non-decreasing order of (name, str(id1),
\* str(id2)), and it is the only list the program emits for that set of
\* tuples, whatever the order they were collected in.
C13_RelationListDeterministic ==
    Returned("unique_relations") =>
        /\ Range(fn_res.v) = Range(fn_arg.x)
        /\ \A i, j \in 1..Len(fn_res.v) : i < j =>
              /\ fn_res.v[i] # fn_res.v[j]
              /\ SortKeyLeq(fn_res.v[i], fn_res.v[j])
        /\ \A q \in Calls_unique_relations :
              Range(q.x) = Range(fn_arg.x) =>
                  \A other \in unique_relations(q.x) : other = fn_res.v

-----------------------------------------------------------------------------
(* More claims about runs of main() (Spec).                                *)

\* a step of the run that is under way: not its kill, not the start of the next
SameRun == hist' = hist /\ mpc' # "crashed"

\* C12: within a run, every (entity type, name) key of the entity cache,
\* loaded from entities.json or added by a batch, stays in the cache in every
\* later step, and is in entities.json when the file is rewritten.
C12_EntityCacheNeverShrinks ==
    [][ SameRun =>
          /\ \A p \in logged_entities : Has(logged_entities', p[1])
          /\ entities_file' # entities_file =>
                /\ entities_file'.kind = "object"
                /\ \A p \in logged_entities : Has(entities_file'.d, p[1]) ]_vars

\* the second run has loaded the keys the first wrote, merged the entities
\* again and rewritten the file with the two keys
C12_Witness ==
    /\ run.n = 2
    /\ mpc = "ents_saved"
    /\ hist[1].outcome = "done"
    /\ Cardinality(logged_entities) = 2
    /\ entities_file = json_dump(logged_entities)

\* the keys of the entities the two collectors found
CollectedKeys == {EKey(e) : e \in Range(dataset.mapped) \cup Range(dataset.dynamic)}
Starts(key) == {i \in 1..Len(run.started) : run.started[i] = key}

\* C19: in a run that completes, merge_entity has been started exactly once
\* for each entity key collected from the dataset, by the static or by the
\* dynamic pass or by both, and for nothing else.
C19_EachEntityStartedOnce ==
    mpc = "done" =>
        /\ \A key \in CollectedKeys : Cardinality(Starts(key)) = 1
        /\ \A i \in 1..Len(run.started) : run.started[i] \in CollectedKeys

\* a completed run over three keys, one of them found by both passes, merged
\* in two batches
C19_Witness ==
    /\ mpc = "done"
    /\ Cardinality(CollectedKeys) = 3
    /\ \E e \in Range(dataset.dynamic) : \E f \in Range(dataset.mapped) : EKey(e) = EKey(f)
    /\ Len(run.started) = 3
    /\ BATCH_SIZE < 3

-----------------------------------------------------------------------------
(* A claim about merge_entity called on its own (SpecME).                  *)

\* call t is for a display name of canonical type persons and a name that is
\* the username of an account
PersonWithAccount(t) ==
    /\ GetOr(get_active_entities, Lower(etasks[t].display_name), NoType) = "persons"
    /\ FindUser(etasks[t].entity_name) # None

\* C20: a merge_entity call for a type whose canonical type is persons and a
\* name that is the username of an account awaits nothing but the fetch of
\* the cache of active entities and the lookup of the account, and returns
\* the id of that account; the call neither inserts nor updates an entity
\* document.
C20_AccountIdReused ==
    [][ \A t \in 1..Len(etasks) :
          PersonWithAccount(t) /\ merge_entity(t) =>
              /\ etasks'[t].pc \in {"load_act", "user_find", "done"}
              /\ etasks[t].pc = "user_find" => etasks'[t].pc = "done"
              /\ etasks'[t].pc = "done" =>
                     etasks'[t].ret = FindUser(etasks[t].entity_name)
              /\ ~etasks'[t].new_doc /\ ~etasks'[t].updated
              /\ db_entities' = db_entities ]_vars

\* the call for the person named as the account alice has returned the id of
\* the account, and the persons collection has no document of that name
C20_Witness ==
    /\ \E o \in returned :
          /\ Lower(o.display_name) = "person" /\ o.entity_name = "alice"
          /\ o.ret = FindUser("alice")
          /\ ~o.new_doc
    /\ \A i \in 1..Len(db_entities) :
          ~(db_entities[i].coll = "persons" /\ db_entities[i].name = "alice")

-----------------------------------------------------------------------------
(* The barrier between the batches of main() (SpecBatches).                *)

\* a call that was not there before the step is at its first line after it
Started(before, after) ==
    \E t \in 1..Len(after) :
        /\ after[t].pc = "start"
        /\ t > Len(before) \/ before[t] # after[t]

\* C18: in the entity phase and in the relation phase, a step that starts the
\* merge operations of a batch is taken only when every operation of the
\* batches before it has returned or raised; none is suspended at a store
\* call, also after one operation of the batch has raised.
C18_BatchBarrier ==
    [][ Started(etasks, etasks') \/ Started(rtasks, rtasks') =>
          /\ \A t \in 1..Len(etasks) : etasks[t].pc \in {"done", "raised"}
          /\ \A t \in 1..Len(rtasks) : rtasks[t].pc \in {"done", "raised"} ]_vars

\* WorkbookD, second run, after a first run that went through both batches
\* of relations: in the first batch of relations one merge_relation call
\* has raised while the other is suspended at a store call, and the second
\* batch is still to come
C18_Witness ==
    /\ dataset = WorkbookD
    /\ Len(hist) = 1 /\ hist[1].dataset = WorkbookD /\ hist[1].outcome = "done"
    /\ mpc = "rbatch"
    /\ Len(rtasks) = BATCH_SIZE
    /\ InLoop(cursor + BATCH_SIZE, todo)
    /\ \E t \in 1..Len(rtasks) : rtasks[t].pc = "raised"
    /\ \E t \in 1..Len(rtasks) : rtasks[t].pc \in AwaitedReadsR \cup AwaitedWritesR

-----------------------------------------------------------------------------
(* Claims about the collection passes and their merge (SpecFn).            *)

\* C23: for a key both passes produced, the merged entity set holds the
\* record of the static pass, with its params; a record of the dynamic pass
\* is in the merged set exactly when the static pass has no record of its key.
C23_StaticRecordWins ==
    Returned("all_entities") =>
        LET dynamic == Range(fn_arg.x[1])
            mapped == Range(fn_arg.x[2])
            merged == fn_res.v
            Static(e) == \E f \in mapped : EKey(f) = EKey(e)
        IN  /\ \A i, j \in 1..Len(merged) : EKey(merged[i]) = EKey(merged[j]) => i = j
            /\ \A f \in mapped : f \in Range(merged)
            /\ \A e \in dynamic : ~Static(e) => e \in Range(merged)
            /\ \A e \in Range(merged) : e \in mapped \/ (e \in dynamic /\ ~Static(e))

\* both passes found (person, carol), the static one with a date; the dynamic
\* pass alone found (work, carol)
C23_Witness ==
    /\ Returned("all_entities")
    /\ fn_arg.x[1] = << Ent("person", "carol", NoParams), Ent("work", "carol", NoParams) >>
    /\ fn_arg.x[2] = << Ent("person", "carol", WithDate("1900")) >>
    /\ fn_res.v = << Ent("person", "carol", WithDate("1900")), Ent("work", "carol", NoParams) >>

\* the names a cell of a static column gives: its pieces, normalized, the
\* empty ones dropped
NamesIn(row, column_name) ==
    IF IsNull(row[column_name]) THEN {}
    ELSE {n.s : n \in {x \in {normalize_value(PyStr(piece)) :
                                 piece \in process_field(row[column_name],
                                     GetOr(delimited_fields, column_name, NoDelimiter))} :
                          x.t = "str" /\ x.s # <<>>}}
\* the static pass reads column after column, and the rows of a column in
\* their order: the place of the first record that holds the key
Sightings(data, e) ==
    {s \in (1..Len(column_order)) \X (1..Len(data.rows)) :
        /\ column_order[s[1]] \in data.columns
        /\ Get(column2type, column_order[s[1]]) = e.type
        /\ e.name \in NamesIn(data.rows[s[2]], column_order[s[1]])}
FirstSighting(data, e) ==
    CHOOSE s \in Sightings(data, e) :
        \A o \in Sightings(data, e) : s[1] < o[1] \/ (s[1] = o[1] /\ s[2] <= o[2])
\* the sibling properties of a record that have a value, normalized
NormalizedSiblings(row, column_name) ==
    { <<pr[2], normalize_value(row[pr[1]])>> :
         pr \in {q \in PropertiesOf(column_name) : normalize_value(row[q[1]]) # PyNone} }

\* C22: each EntityRecord of the static pass has, as params, the normalized
\* sibling properties of the first record that holds its key (type, value);
\* records that hold the key later, whatever their sibling properties, change
\* nothing, and there is one EntityRecord per key.
C22_ParamsOfFirstSight ==
    Returned("collect_mapped_entities") =>
        /\ \A e, f \in fn_res.v : (e.type = f.type /\ e.name = f.name) => e = f
        /\ \A e \in fn_res.v :
              /\ Sightings(fn_arg.x, e) # {}
              /\ LET s == FirstSighting(fn_arg.x, e)
                 IN  e.params = NormalizedSiblings(fn_arg.x.rows[s[2]], column_order[s[1]])

-----------------------------------------------------------------------------
(* The operators recorded on an entity document (Spec).                    *)

\* call t returns in this step, with the id of an entity document
ReturnsEntity(t) ==
    /\ etasks[t].pc # "done"
    /\ Len(etasks') >= t
    /\ etasks'[t].pc = "done"
    /\ etasks'[t].ret[1] = "ent"

\* C21: the associatedUsers of an entity document hold each operator id at
\* most once, never lose an id, and hold the id of the operator of every
\* merge_entity call that has returned the document, created or found, in
\* whatever run and under whatever interleaving of the calls of a batch.
C21_AssociatedUsers ==
    [][ /\ \A d \in 1..Len(db_entities') :
              LET users == db_entities'[d].associatedUsers
              IN  \A i, j \in 1..Len(users) : users[i] = users[j] => i = j
        /\ \A d \in 1..Len(db_entities) :
              /\ Len(db_entities') >= d
              /\ Range(db_entities[d].associatedUsers)
                    \subseteq Range(db_entities'[d].associatedUsers)
        /\ \A t \in 1..Len(etasks) :
              ReturnsEntity(t) =>
                 user_id \in Range(db_entities'[etasks'[t].ret[2]].associatedUsers) ]_vars

\* a document created in the run of one operator has been found in the run
\* of another: it holds the two ids, and the call that found it has returned
C21_Witness ==
    /\ run.n = 2
    /\ \E t \in 1..Len(etasks) :
          /\ etasks[t].pc = "done"
          /\ etasks[t].updated
          /\ etasks[t].ret[1] = "ent"
          /\ Len(db_entities[etasks[t].ret[2]].associatedUsers) = 2
          /\ db_entities[etasks[t].ret[2]].by[1] = 1

-----------------------------------------------------------------------------
(* The relation builder of main() (Spec).                                  *)

\* C25: when the entity phase is over and the relation builder finds cached
\* ids for both sides of a pair, the display types of the two sides are keys
\* of active_entities as fetched in this run, so that the relation tuple can
\* be formed; also with a cache loaded from the file of an earlier run and
\* with a configured type name that is not lower-case.
C25_ResolvedTypesAreActive ==
    mpc = "ents_saved" =>
        \A r \in dataset.rels :
            Resolved(logged_entities, r) =>
                /\ Has(active_entities.d, r.e1[1])
                /\ Has(active_entities.d, r.e2[1])

-----------------------------------------------------------------------------
(* Termination of the gathered merge_relation calls (SpecLive).            *)

\* the relation-type insert of the call is awaited inside the critical section
InCriticalInsert(tk) == tk.pc \in {"rt_ins", "rt_ins_rej"}

\* C24: under fair scheduling every merge_relation call of a gather ends: with
\* a result, with the exception of a store call that failed, or cancelled
\* with the gather that failed; a call that has ended holds no relation-type
\* lock and waits for none, so no call waits for a lock forever; an insert
\* that failed in the critical section leaves the key out of the
\* relation-type cache.
C24_EveryCallEnds ==
    /\ [](\A t \in 1..Len(rtasks) :
             Settled(rtasks[t]) =>
                \A i \in 1..Len(relation_type_locks) : relation_type_locks[i][2] # t)
    /\ [][\A t \in 1..Len(rtasks) :
             (Len(rtasks') >= t /\ InCriticalInsert(rtasks[t]) /\ rtasks'[t].pc = "raised")
                => (relation_types' = relation_types
                    /\ ~Has(relation_types.d, rtasks[t].rel_type_key))]_vars
    /\ (rtasks # <<>>) ~> (/\ rtasks # <<>>
                           /\ \A t \in 1..Len(rtasks) : Settled(rtasks[t]))

\* the insert of one call was rejected in the critical section; another call
\* for the same key got the lock afterwards, missed the key in the cache,
\* inserted the relation type itself and has returned
C24_Witness ==
    \E t, u \in 1..Len(rtasks) :
        /\ rtasks[t].pc = "raised"
        /\ rtasks[t].rel_type_key # <<>>
        /\ rtasks[t].relation_type_id = None
        /\ rtasks[u].pc = "done"
        /\ rtasks[u].rel_type_key = rtasks[t].rel_type_key
        /\ rtasks[u].new_rt
        /\ rtasks[u].ret # None

====
